---- MODULE Spec2Model ----
(***************************************************************************)
(* Model of the AI routes of ai-todo-manager: the parse-todo route          *)
(* (validateInput, preprocessText, postprocess, POST) and the              *)
(* summarize-todos route (POST), as handlers of one server process whose   *)
(* requests interleave at their awaits (Spec).  validateInput,             *)
(* postprocess, and computeStats next to the statistics of the client,     *)
(* are also applied on their own to enumerated arguments (SpecValidate,    *)
(* SpecPostprocess, SpecStats).                                            *)
(*                                                                         *)
(* The browser side: the table public.todos with its constraints and       *)
(* triggers under the statements a session may send (SpecStore), the       *)
(* handlers of HomePage over that table, suspended at their awaits and     *)
(* answered in any order (SpecPage), AiTodoDialog inside HomePage          *)
(* (SpecDialog), getFilteredTodos applied on its own (SpecFilter), and the *)
(* route guard with the login page (SpecAuth).                             *)
(*                                                                         *)
(* A string is a sequence of characters; a character is one of the tokens  *)
(* below, each standing for one code point:                                *)
(*   "a"    a letter                     "sp"   a space                    *)
(*   "nl"   a line feed                  "lt"   <  (a dangerous character) *)
(*   "emo"  U+1F600, an emoji of two UTF-16 code units                     *)
(*   "fwa"  U+FF41, full-width a         "fwlt" U+FF1C, full-width <       *)
(*   "k"    a Hangul syllable (the placeholder title is written in them)   *)
(*   "ell"  U+2026, the ellipsis postprocess appends to a cut title        *)
(*   "hs"   the first code unit of an emoji, left alone when slice() cuts  *)
(*          the emoji in two                                               *)
(***************************************************************************)
EXTENDS Integers, Sequences, FiniteSets, TLC

VARIABLES
  lastIndex,  \* DANGEROUS_CHARS_REGEX.lastIndex, state of the parse route's module
  req,        \* the requests in flight: where each POST is suspended
  returned,   \* the exchange whose response a POST has just returned, if any
  zone,       \* the time zone of the process: minutes east of UTC
  probe,      \* one function of the routes applied on its own: its
              \* arguments, and its result once it has returned
  table,      \* the rows of public.todos, by id
  pageTodos,  \* the todos state of HomePage: the rows it shows, by id
  pending,    \* the handlers of HomePage suspended at an await
  finished,   \* what the handlers of HomePage have done so far
  dialog,     \* the state of AiTodoDialog
  user,       \* the user of the session the browser holds, if any
  shown,      \* the page the browser shows: its path, its next parameter and
              \* the error of its form
  served      \* the request the middleware handled last, and its response

vars == <<lastIndex, req, returned, zone, probe,
          table, pageTodos, pending, finished, dialog, user, shown, served>>

\* the variables of the server process and those of the browser
serverVars == <<lastIndex, req, returned>>
clientVars == <<table, pageTodos, pending, finished, dialog, user, shown, served>>

\* no browser takes part while the server or one function runs on its own
NoClient ==
  /\ table = <<>> /\ pageTodos = <<>> /\ pending = <<>> /\ finished = <<>>
  /\ dialog = <<>> /\ user = <<>> /\ shown = <<>> /\ served = <<>>

\* ------------------------------------------------------------------------
\* Bounds of the model
\* ------------------------------------------------------------------------

\* number of requests the server process may have in flight at once
MaxReq == 2

\* length of the texts that are enumerated in full
MaxText == 3

\* length of the todo lists that are enumerated in full
MaxTodos == 2

\* ------------------------------------------------------------------------
\* Program constants
\* ------------------------------------------------------------------------

MIN_LENGTH == 2
MAX_LENGTH == 500
TITLE_MIN == 2
TITLE_MAX == 100
MAX_TODOS == 200

\* ------------------------------------------------------------------------
\* Characters and the regular expressions of the parse route
\* ------------------------------------------------------------------------

Char == {"a", "k", "ell", "sp", "nl", "lt", "emo", "hs", "fwa", "fwlt"}

\* String.length counts UTF-16 code units
Units(c) == IF c = "emo" THEN 2 ELSE 1

\* \s of a JavaScript regular expression, and the white space trim() removes
IsSpace(c) == c \in {"sp", "nl"}

\* one match of EMOJI_REGEX (u flag: a whole code point)
EMOJI_REGEX(c) == c = "emo"

\* one match of DANGEROUS_CHARS_REGEX
DANGEROUS_CHARS_REGEX(c) == c = "lt"

\* one match of /[\uFF01-\uFF5E]/
IsFullWidth(c) == c \in {"fwa", "fwlt"}

\* String.fromCharCode(ch.charCodeAt(0) - 0xfee0)
ToHalfWidth(c) == IF c = "fwa" THEN "a" ELSE IF c = "fwlt" THEN "lt" ELSE c

Min(S) == CHOOSE x \in S : \A y \in S : x <= y
Max(S) == CHOOSE x \in S : \A y \in S : x >= y

\* s.length: one code unit for each character, and one more for each
\* character outside the basic plane
Length(s) == Len(s) + Cardinality({i \in 1..Len(s) : Units(s[i]) = 2})

\* the code-unit index at which the i-th character of s starts
Offset(s, i) == Length(SubSeq(s, 1, i - 1))

\* s.trim()
Trim(s) ==
  IF \A i \in 1..Len(s) : IsSpace(s[i]) THEN <<>>
  ELSE LET b == CHOOSE i \in 1..Len(s) :
                  ~IsSpace(s[i]) /\ \A j \in 1..(i - 1) : IsSpace(s[j])
           e == CHOOSE i \in 1..Len(s) :
                  ~IsSpace(s[i]) /\ \A j \in (i + 1)..Len(s) : IsSpace(s[j])
       IN SubSeq(s, b, e)

\* s.replace(/\s+/g, ' ')
CollapseSpaces(s) ==
  LET F[i \in 0..Len(s)] ==
        IF i = 0 THEN <<>>
        ELSE IF ~IsSpace(s[i]) THEN Append(F[i - 1], s[i])
        ELSE IF i > 1 /\ IsSpace(s[i - 1]) THEN F[i - 1]
        ELSE Append(F[i - 1], "sp")
  IN F[Len(s)]

NotEmoji(c) == ~EMOJI_REGEX(c)
NotDangerous(c) == ~DANGEROUS_CHARS_REGEX(c)

\* s.replace(EMOJI_REGEX, '')
StripEmoji(s) == SelectSeq(s, NotEmoji)

\* s.replace(DANGEROUS_CHARS_REGEX, '')
StripDangerous(s) == SelectSeq(s, NotDangerous)

\* s.replace(/[\uFF01-\uFF5E]/g, ch => String.fromCharCode(ch.charCodeAt(0) - 0xfee0))
HalfWidth(s) ==
  [i \in 1..Len(s) |-> IF IsFullWidth(s[i]) THEN ToHalfWidth(s[i]) ELSE s[i]]

\* DANGEROUS_CHARS_REGEX.test(s) with the g flag: the search starts at the
\* regular expression's lastIndex li; a match leaves lastIndex after the
\* matched character, a failure resets it to 0.
RegexTest(s, li) ==
  LET hits == {i \in 1..Len(s) : DANGEROUS_CHARS_REGEX(s[i]) /\ Offset(s, i) >= li}
  IN IF hits = {} THEN [found |-> FALSE, lastIndex |-> 0]
     ELSE [found |-> TRUE, lastIndex |-> Offset(s, Min(hits)) + 1]

\* ------------------------------------------------------------------------
\* validateInput and preprocessText
\* ------------------------------------------------------------------------

\* A value of the request's text field: a string, or anything else
\* (a number, an object, a missing field).
Str(s) == [type |-> "string", s |-> s]
NotAString == [type |-> "other", s |-> <<>>]
NullStr == [type |-> "null", s |-> <<>>]

\* validateInput comparing the trimmed length, not the raw one, with
\* MAX_LENGTH
validateInput_TrimmedMax(text, li) ==
  IF text.type # "string"
  THEN [ok |-> FALSE, error |-> "text is not a string", lastIndex |-> li]
  ELSE
    LET trimmed == Trim(text.s)
        t == RegexTest(trimmed, li)
        withoutEmoji == Trim(StripEmoji(trimmed))
    IN IF Length(trimmed) = 0
       THEN [ok |-> FALSE, error |-> "enter a todo", lastIndex |-> li]
       ELSE IF Length(trimmed) < MIN_LENGTH
       THEN [ok |-> FALSE, error |-> "at least MIN_LENGTH characters", lastIndex |-> li]
       ELSE IF Length(trimmed) > MAX_LENGTH
       THEN [ok |-> FALSE, error |-> "at most MAX_LENGTH characters", lastIndex |-> li]
       ELSE IF t.found
       THEN [ok |-> FALSE, error |-> "dangerous characters", lastIndex |-> t.lastIndex]
       ELSE IF Length(withoutEmoji) = 0
       THEN [ok |-> FALSE, error |-> "emoji only", lastIndex |-> t.lastIndex]
       ELSE [ok |-> TRUE, error |-> "", lastIndex |-> t.lastIndex]

\* validateInput(text) with DANGEROUS_CHARS_REGEX.lastIndex = li on entry
validateInput(text, li) ==
  IF text.type # "string"
  THEN [ok |-> FALSE, error |-> "text is not a string", lastIndex |-> li]
  ELSE
    LET trimmed == Trim(text.s)
        t == RegexTest(trimmed, li)
        withoutEmoji == Trim(StripEmoji(trimmed))
    IN IF Length(trimmed) = 0
       THEN [ok |-> FALSE, error |-> "enter a todo", lastIndex |-> li]
       ELSE IF Length(trimmed) < MIN_LENGTH
       THEN [ok |-> FALSE, error |-> "at least MIN_LENGTH characters", lastIndex |-> li]
       ELSE IF Length(text.s) > MAX_LENGTH
       THEN [ok |-> FALSE, error |-> "at most MAX_LENGTH characters", lastIndex |-> li]
       ELSE IF t.found
       THEN [ok |-> FALSE, error |-> "dangerous characters", lastIndex |-> t.lastIndex]
       ELSE IF Length(withoutEmoji) = 0
       THEN [ok |-> FALSE, error |-> "emoji only", lastIndex |-> t.lastIndex]
       ELSE [ok |-> TRUE, error |-> "", lastIndex |-> t.lastIndex]

\* preprocessText(text)
preprocessText(s) ==
  LET r1 == Trim(s)
      r2 == CollapseSpaces(r1)
      r3 == Trim(StripEmoji(r2))
      r4 == StripDangerous(r3)
      r5 == HalfWidth(r4)
  IN Trim(r5)

\* ------------------------------------------------------------------------
\* Dates: a Date is its local calendar fields (no daylight-saving shift)
\* ------------------------------------------------------------------------

DT(y, mo, d, h, mi) == [y |-> y, mo |-> mo, d |-> d, h |-> h, mi |-> mi]

NoDate == DT(0, 0, 0, 0, 0)

\* A string handed to new Date(): "YYYY-MM-DDTHH:mm" read as local time,
\* "YYYY-MM-DDTHH:mm:ss.sssZ" read as UTC (what toISOString() writes and
\* the database stores), or a string no date can be parsed from; and the
\* values that are no string.
\* yw is the number of digits the year is written with: four in both forms.
LocalStr(dt) == [kind |-> "local", dt |-> dt, yw |-> 4]
UtcStr(dt) == [kind |-> "utc", dt |-> dt, yw |-> 4]
InvalidStr == [kind |-> "invalid", dt |-> NoDate]
EmptyStr == [kind |-> "empty", dt |-> NoDate]
Null == [kind |-> "null", dt |-> NoDate]

IsLeap(y) == (y % 4 = 0 /\ y % 100 # 0) \/ y % 400 = 0

\* a > b for two valid Dates
After(a, b) ==
  \/ a.y > b.y
  \/ a.y = b.y /\ a.mo > b.mo
  \/ a.y = b.y /\ a.mo = b.mo /\ a.d > b.d
  \/ a.y = b.y /\ a.mo = b.mo /\ a.d = b.d /\ a.h > b.h
  \/ a.y = b.y /\ a.mo = b.mo /\ a.d = b.d /\ a.h = b.h /\ a.mi > b.mi

\* d.setFullYear(y): February 29 of a year that has none becomes March 1
SetFullYear(dt, y) ==
  IF dt.mo = 2 /\ dt.d = 29 /\ ~IsLeap(y)
  THEN [dt EXCEPT !.y = y, !.mo = 3, !.d = 1]
  ELSE [dt EXCEPT !.y = y]

\* the time zones the process may run in: UTC and Asia/Seoul
TimeZones == {0, 540}

DaysInMonth(y, mo) ==
  IF mo = 2 THEN (IF IsLeap(y) THEN 29 ELSE 28)
  ELSE IF mo \in {4, 6, 9, 11} THEN 30 ELSE 31

\* the days from 1970-01-01 to January 1 of year y
DaysBeforeYear(y) ==
  365 * (y - 1970) + ((y - 1969) \div 4) - ((y - 1901) \div 100)
    + ((y - 1601) \div 400)

\* the days from January 1 of year y to the first of month mo
DaysBeforeMonth(y, mo) ==
  <<0, 31, 59, 90, 120, 151, 181, 212, 243, 273, 304, 334>>[mo]
    + (IF mo > 2 /\ IsLeap(y) THEN 1 ELSE 0)

\* The day number of the calendar fields y, mo, d, counted from
\* 1970-01-01.  A day of the month below 1 or above the length of the month
\* counts on into the neighbouring months, as the setters of Date do.
DayNumber(y, mo, d) == DaysBeforeYear(y) + DaysBeforeMonth(y, mo) + d - 1

\* the calendar date of day number n
CivilFromDays(n) ==
  LET y0 == 1970 + (n \div 366)
      y == CHOOSE c \in (y0 - 3)..(y0 + 2) :
             DaysBeforeYear(c) <= n /\ n < DaysBeforeYear(c + 1)
      r == n - DaysBeforeYear(y)
      mo == CHOOSE c \in 1..12 :
              DaysBeforeMonth(y, c) <= r /\ r < DaysBeforeMonth(y, c) + DaysInMonth(y, c)
  IN [y |-> y, mo |-> mo, d |-> r - DaysBeforeMonth(y, mo) + 1]

\* getDay() of day number n: 0 is Sunday; 1970-01-01 was a Thursday
DayOfWeek(n) == (n + 4) % 7

\* the minutes from 1970-01-01T00:00 to the calendar fields dt
Minutes(dt) == DayNumber(dt.y, dt.mo, dt.d) * 1440 + dt.h * 60 + dt.mi

\* the calendar fields of minute m
FromMinutes(m) ==
  LET c == CivilFromDays(m \div 1440)
  IN DT(c.y, c.mo, c.d, (m % 1440) \div 60, m % 60)

\* new Date(v) for a string v that parses: the local calendar fields of the
\* instant, in the time zone of the process
ParseDate(v) ==
  IF v.kind = "utc" THEN FromMinutes(Minutes(v.dt) + zone) ELSE v.dt

\* date.toISOString(): the instant written in UTC
ToISOString(dt) == UtcStr(FromMinutes(Minutes(dt) - zone))

\* ------------------------------------------------------------------------
\* postprocess
\* ------------------------------------------------------------------------

\* '새 할 일'
PLACEHOLDER_TITLE == <<"k", "sp", "k", "sp", "k">>

\* s.slice(0, n): the first n code units; of a character of two code
\* units that lies across the cut the first one is kept
Slice(s, n) ==
  LET fit == {i \in 0..Len(s) : Length(SubSeq(s, 1, i)) <= n}
      head == SubSeq(s, 1, Max(fit))
  IN IF Max(fit) < Len(s) /\ Length(head) < n THEN Append(head, "hs") ELSE head

\* s.replace(/\s+\S*$/, ''): the leftmost match starts the last run of
\* white space; everything from there on is removed
DropLastWord(s) ==
  LET sp == {i \in 1..Len(s) : IsSpace(s[i])}
  IN IF sp = {} THEN s
     ELSE LET e == Max(sp)
              b == Min({i \in 1..e : \A j \in i..e : IsSpace(s[j])})
          IN SubSeq(s, 1, b - 1)

\* String(n).length of a year n >= 0
DigitsOf(n) == IF n < 10 THEN 1 ELSE IF n < 100 THEN 2 ELSE IF n < 1000 THEN 3 ELSE 4

\* `${getFullYear()}-${pad(getMonth() + 1)}-${pad(getDate())}T${pad(getHours())}:${pad(getMinutes())}`:
\* month, day, hour and minute are padded to two digits, the year is not
FormatLocal(dt) == [kind |-> "local", dt |-> dt, yw |-> DigitsOf(dt.y)]

\* the title correction of postprocess
RepairTitle(rawTitle) ==
  LET t0 == Trim(rawTitle)
      title == IF t0 = <<>> THEN PLACEHOLDER_TITLE ELSE t0
  IN IF Length(title) < TITLE_MIN THEN PLACEHOLDER_TITLE
     ELSE IF Length(title) > TITLE_MAX
     THEN Append(Trim(DropLastWord(Slice(title, TITLE_MAX))), "ell")
     ELSE title

\* the due date correction of postprocess; now is new Date(nowStr)
RepairDueAt(rawDue, now) ==
  IF rawDue.kind \in {"null", "empty"} THEN Null
  ELSE IF rawDue.kind = "invalid" THEN Null
  ELSE
    LET parsed == ParseDate(rawDue)
        oneYearLater == SetFullYear(now.dt, now.dt.y + 1)
        corrected == IF now.kind = "local" /\ After(parsed, oneYearLater)
                     THEN SetFullYear(parsed, now.dt.y)
                     ELSE parsed
    IN FormatLocal(corrected)

\* raw.category?.trim() || null
TrimOrNull(v) ==
  IF v.type # "string" THEN v
  ELSE IF Trim(v.s) = <<>> THEN NullStr
  ELSE Str(Trim(v.s))

postprocess(raw, now) ==
  [title |-> RepairTitle(raw.title),
   due_at |-> RepairDueAt(raw.due_at, now),
   priority |-> IF raw.priority \in {"high", "medium", "low"}
                THEN raw.priority ELSE "medium",
   category |-> TrimOrNull(raw.category),
   description |-> TrimOrNull(raw.description)]

\* ------------------------------------------------------------------------
\* Responses, thrown errors and the catch blocks
\* ------------------------------------------------------------------------

\* errorResponse(message, status)
errorResponse(message, status) == [status |-> status, body |-> [error |-> message]]

\* NextResponse.json(object)
jsonResponse(object) == [status |-> 200, body |-> object]

\* A thrown value is known by which of the catch blocks' substring checks its
\* message passes:
\*   "auth"   includes 'API_KEY', 'authentication' or 'API key'
\*   "quota"  includes 'quota', 'RESOURCE_EXHAUSTED' or '429'
\*   "model"  includes 'model' or 'not found'
\*   "json"   includes 'JSON' or 'parse'
Words == {"auth", "quota", "model", "json"}

\* parseCatch with a catch block that rethrows what it does not recognise:
\* no response is returned (status 0)
parseCatch_Rethrow(message) ==
  IF "auth" \in message THEN errorResponse("AI authentication error", 500)
  ELSE IF "quota" \in message THEN errorResponse("AI quota exceeded, try again later", 429)
  ELSE IF "model" \in message THEN errorResponse("AI model connection failed", 500)
  ELSE IF "json" \in message THEN errorResponse("AI response could not be processed", 500)
  ELSE [status |-> 0, body |-> [uncaught |-> message]]

\* the catch block of the parse route
parseCatch(message) ==
  IF "auth" \in message THEN errorResponse("AI authentication error", 500)
  ELSE IF "quota" \in message THEN errorResponse("AI quota exceeded, try again later", 429)
  ELSE IF "model" \in message THEN errorResponse("AI model connection failed", 500)
  ELSE IF "json" \in message THEN errorResponse("AI response could not be processed", 500)
  ELSE errorResponse("AI analysis failed, try again", 500)

\* the catch block of the summarize route
summarizeCatch(message) ==
  IF "auth" \in message THEN errorResponse("AI authentication error", 500)
  ELSE IF "quota" \in message THEN errorResponse("AI quota exceeded, try again later", 429)
  ELSE errorResponse("AI analysis failed, try again", 500)

\* ------------------------------------------------------------------------
\* Requests
\* ------------------------------------------------------------------------

\* The body of a request, as request.json() finds it:
\*   shape "unparseable"  no JSON: request.json() rejects with a SyntaxError
\*                        whose message is `thrown`
\*   shape "null"         the JSON value null: destructuring it throws a
\*                        TypeError, whose message passes no check
\*   shape "object"       an object with the fields below
\* currentLocalDateTime is "absent" (missing or empty), "local" (a
\* YYYY-MM-DDTHH:mm string) or "invalid" (a string that is no date).
Absent == [kind |-> "absent", dt |-> NoDate]

\* what the server's clock reads: new Date().toISOString().slice(0, 16)
ServerClock == DT(2026, 2, 17, 0, 0)

\* currentLocalDateTime || new Date().toISOString().slice(0, 16)
NowStr(currentLocalDateTime) ==
  IF currentLocalDateTime.kind = "absent" THEN LocalStr(ServerClock)
  ELSE currentLocalDateTime

Rep(c, n) == [i \in 1..n |-> c]

\* one exchange: a request and the response it got
\*   validation the result of the handler's validation checks: of
\*              validateInput and the length check of the cleaned text in
\*              the parse route, of the checks of todos and period in the
\*              summarize route
\*   calls      how often generateObject was called
\*   threw      the stage at which something was thrown, or "none"
NoExchange == [route |-> "none"]

Exchange(route, body, validation, cleanedText, calls, threw, outcome, response) ==
  [route |-> route, body |-> body, validation |-> validation,
   cleanedText |-> cleanedText, calls |-> calls, threw |-> threw,
   outcome |-> outcome, response |-> response]

NoOutcome == [ok |-> FALSE, settled |-> FALSE]

Passed == [ok |-> TRUE, error |-> ""]
Failed(error) == [ok |-> FALSE, error |-> error]
NotReached == [ok |-> FALSE, error |-> "not reached"]

\* ------------------------------------------------------------------------
\* POST of the parse route
\* ------------------------------------------------------------------------

\* parsePOST without the length check of the cleaned text
parsePOST_NoRecheck(body, li) ==
  IF body.shape = "unparseable"
  THEN [done |-> TRUE, lastIndex |-> li,
        exchange |-> Exchange("parse", body, NotReached, <<>>, 0, "body", NoOutcome,
                              parseCatch(body.thrown))]
  ELSE IF body.shape = "null"
  THEN [done |-> TRUE, lastIndex |-> li,
        exchange |-> Exchange("parse", body, NotReached, <<>>, 0, "body", NoOutcome,
                              parseCatch({}))]
  ELSE
    LET validation == validateInput(body.text, li)
        cleanedText == preprocessText(body.text.s)
    IN IF ~validation.ok
       THEN [done |-> TRUE, lastIndex |-> validation.lastIndex,
             exchange |-> Exchange("parse", body, Failed(validation.error), <<>>, 0,
                                   "none", NoOutcome,
                                   errorResponse(validation.error, 400))]
       ELSE [done |-> FALSE, lastIndex |-> 0,
             exchange |-> Exchange("parse", body, Passed, cleanedText, 1, "none",
                                   NoOutcome, [status |-> 0])]

\* From the resolution of request.json() up to the await of generateObject
\* (or the return), with DANGEROUS_CHARS_REGEX.lastIndex = li on entry.
parsePOST(body, li) ==
  IF body.shape = "unparseable"
  THEN [done |-> TRUE, lastIndex |-> li,
        exchange |-> Exchange("parse", body, NotReached, <<>>, 0, "body", NoOutcome,
                              parseCatch(body.thrown))]
  ELSE IF body.shape = "null"
  THEN [done |-> TRUE, lastIndex |-> li,
        exchange |-> Exchange("parse", body, NotReached, <<>>, 0, "body", NoOutcome,
                              parseCatch({}))]
  ELSE
    LET validation == validateInput(body.text, li)
        cleanedText == preprocessText(body.text.s)
    IN IF ~validation.ok
       THEN [done |-> TRUE, lastIndex |-> validation.lastIndex,
             exchange |-> Exchange("parse", body, Failed(validation.error), <<>>, 0,
                                   "none", NoOutcome,
                                   errorResponse(validation.error, 400))]
       ELSE IF Length(cleanedText) < MIN_LENGTH
       THEN [done |-> TRUE, lastIndex |-> 0,
             exchange |-> Exchange("parse", body, Failed("enter meaningful content"),
                                   cleanedText, 0, "none", NoOutcome,
                                   errorResponse("enter meaningful content", 400))]
       ELSE [done |-> FALSE, lastIndex |-> 0,
             exchange |-> Exchange("parse", body, Passed, cleanedText, 1, "none",
                                   NoOutcome, [status |-> 0])]

\* parseResume with one retry of a failed generateObject
parseResume_Retry(e, outcome) ==
  IF outcome.ok
  THEN [e EXCEPT !.outcome = outcome,
                 !.response = jsonResponse(postprocess(outcome.object,
                                             NowStr(e.body.currentLocalDateTime)))]
  ELSE [e EXCEPT !.outcome = outcome, !.threw = "model", !.calls = e.calls + 1,
                 !.response = parseCatch(outcome.thrown)]

\* From the settlement of generateObject to the return; e is the exchange so
\* far, outcome what generateObject resolved or rejected with.
parseResume(e, outcome) ==
  IF outcome.ok
  THEN [e EXCEPT !.outcome = outcome,
                 !.response = jsonResponse(postprocess(outcome.object,
                                             NowStr(e.body.currentLocalDateTime)))]
  ELSE [e EXCEPT !.outcome = outcome, !.threw = "model",
                 !.response = parseCatch(outcome.thrown)]

\* ------------------------------------------------------------------------
\* POST of the summarize route
\* ------------------------------------------------------------------------

\* The todos field: isArray, its length, and what its elements are:
\*   "todo"    objects of the TodoSummaryInput shape
\*   "null"    at least one element is null
\*   "number"  numbers (every field read of them is undefined)

\* computeStats(todos, nowStr) throws a TypeError at t.due_at of a null element
computeStatsThrows(todos) == todos.items = "null"

\* buildStatsBlock(stats, period) throws a RangeError at
\* stats.now.toISOString() when nowStr is no date
buildStatsBlockThrows(nowStr) == nowStr.kind = "invalid"

\* summarizeValidation with the cap off by one
summarizeValidation_OffByOne(body) ==
  IF ~body.todos.isArray THEN Failed("todos has the wrong format")
  ELSE IF body.period \notin {"today", "week"} THEN Failed("period is not valid")
  ELSE IF body.todos.length = 0 THEN Failed("no todos to analyze")
  ELSE IF body.todos.length > MAX_TODOS + 1 THEN Failed("more than MAX_TODOS todos")
  ELSE Passed

\* the input checks of POST, in the order the handler makes them
summarizeValidation(body) ==
  IF ~body.todos.isArray THEN Failed("todos has the wrong format")
  ELSE IF body.period \notin {"today", "week"} THEN Failed("period is not valid")
  ELSE IF body.todos.length = 0 THEN Failed("no todos to analyze")
  ELSE IF body.todos.length > MAX_TODOS THEN Failed("more than MAX_TODOS todos")
  ELSE Passed

\* summarizePOST with the return of a failed validation missing: the handler
\* answers 400 only after it has gone on to call the model
summarizePOST_NoReturn(body) ==
  IF body.shape = "unparseable"
  THEN [done |-> TRUE,
        exchange |-> Exchange("summarize", body, NotReached, <<>>, 0, "body",
                              NoOutcome, summarizeCatch(body.thrown))]
  ELSE IF body.shape = "null"
  THEN [done |-> TRUE,
        exchange |-> Exchange("summarize", body, NotReached, <<>>, 0, "body",
                              NoOutcome, summarizeCatch({}))]
  ELSE
    LET validation == summarizeValidation(body)
    IN IF ~validation.ok /\ ~body.todos.isArray
       THEN [done |-> TRUE,
             exchange |-> Exchange("summarize", body, validation, <<>>, 0, "none",
                                   NoOutcome, errorResponse(validation.error, 400))]
       ELSE IF computeStatsThrows(body.todos)
       THEN [done |-> TRUE,
             exchange |-> Exchange("summarize", body, validation, <<>>, 0, "stats",
                                   NoOutcome, summarizeCatch({}))]
       ELSE IF buildStatsBlockThrows(NowStr(body.currentLocalDateTime))
       THEN [done |-> TRUE,
             exchange |-> Exchange("summarize", body, validation, <<>>, 0, "prompt",
                                   NoOutcome, summarizeCatch({}))]
       ELSE [done |-> FALSE,
             exchange |-> Exchange("summarize", body, validation, <<>>, 1, "none",
                                   NoOutcome, [status |-> 0])]

\* From the resolution of request.json() up to the await of generateObject
\* (or the return).
summarizePOST(body) ==
  IF body.shape = "unparseable"
  THEN [done |-> TRUE,
        exchange |-> Exchange("summarize", body, NotReached, <<>>, 0, "body",
                              NoOutcome, summarizeCatch(body.thrown))]
  ELSE IF body.shape = "null"
  THEN [done |-> TRUE,
        exchange |-> Exchange("summarize", body, NotReached, <<>>, 0, "body",
                              NoOutcome, summarizeCatch({}))]
  ELSE
    LET validation == summarizeValidation(body)
    IN IF ~validation.ok
       THEN [done |-> TRUE,
             exchange |-> Exchange("summarize", body, validation, <<>>, 0, "none",
                                   NoOutcome, errorResponse(validation.error, 400))]
       ELSE IF computeStatsThrows(body.todos)
       THEN [done |-> TRUE,
             exchange |-> Exchange("summarize", body, validation, <<>>, 0, "stats",
                                   NoOutcome, summarizeCatch({}))]
       ELSE IF buildStatsBlockThrows(NowStr(body.currentLocalDateTime))
       THEN [done |-> TRUE,
             exchange |-> Exchange("summarize", body, validation, <<>>, 0, "prompt",
                                   NoOutcome, summarizeCatch({}))]
       ELSE [done |-> FALSE,
             exchange |-> Exchange("summarize", body, validation, <<>>, 1, "none",
                                   NoOutcome, [status |-> 0])]

\* From the settlement of generateObject to the return.
summarizeResume(e, outcome) ==
  IF outcome.ok
  THEN [e EXCEPT !.outcome = outcome, !.response = jsonResponse(outcome.object)]
  ELSE [e EXCEPT !.outcome = outcome, !.threw = "model",
                 !.response = summarizeCatch(outcome.thrown)]

\* ------------------------------------------------------------------------
\* The inputs of the model
\* ------------------------------------------------------------------------

\* the reference instant of the spec's scenario D
Now0 == DT(2026, 2, 17, 9, 0)

\* messages of the SyntaxError of request.json(): V8 names JSON, and the
\* position of the error or a piece of the text, which may read 429
BodyErrors == {{"json"}, {"json", "quota"}}

ParseTexts ==
  { <<>>,
    <<"sp", "a">>,
    <<"a", "a">>,
    <<"a", "lt">>,
    <<"lt", "a">>,
    <<"lt", "a", "a">>,
    <<"emo">>,
    <<"a", "emo">>,
    <<"a", "fwlt">>,
    <<"a", "sp", "emo", "sp", "a">>,
    Rep("a", MAX_LENGTH + 1) }

ParseBodies ==
  { [shape |-> "unparseable", thrown |-> m] : m \in BodyErrors }
  \cup { [shape |-> "null"] }
  \cup { [shape |-> "object", text |-> NotAString,
          currentLocalDateTime |-> LocalStr(Now0)] }
  \cup { [shape |-> "object", text |-> Str(t),
          currentLocalDateTime |-> LocalStr(Now0)] : t \in ParseTexts }
  \cup { [shape |-> "object", text |-> Str(<<"a", "a">>),
          currentLocalDateTime |-> n] : n \in {Absent, InvalidStr} }

\* what generateObject settles with: an object of the schema, or a thrown
\* error whose message the upstream chose
Resolved(object) == [ok |-> TRUE, settled |-> TRUE, object |-> object, thrown |-> {}]
Rejected(message) == [ok |-> FALSE, settled |-> TRUE, object |-> {}, thrown |-> message]

ModelErrors == {{}, {"auth"}, {"quota"}, {"auth", "quota"}, {"model"}, {"json"}}

ParsedObjects ==
  { [title |-> <<"a", "a">>, due_at |-> LocalStr(DT(2026, 2, 18, 15, 0)),
     priority |-> "high", category |-> Str(<<"a">>), description |-> NullStr],
    [title |-> <<>>, due_at |-> Null,
     priority |-> "medium", category |-> Str(<<"sp">>), description |-> Str(<<>>)],
    [title |-> <<"a">>, due_at |-> LocalStr(DT(2028, 2, 29, 15, 0)),
     priority |-> "low", category |-> NullStr, description |-> Str(<<"a">>)] }

ParseOutcomes ==
  { Resolved(o) : o \in ParsedObjects } \cup { Rejected(m) : m \in ModelErrors }

Todos(isArray, length, items) ==
  [isArray |-> isArray, length |-> length, items |-> items]

SummarizeTodos ==
  { Todos(FALSE, 0, "todo"),
    Todos(TRUE, 0, "todo"),
    Todos(TRUE, 1, "todo"),
    Todos(TRUE, 1, "null"),
    Todos(TRUE, MAX_TODOS, "todo"),
    Todos(TRUE, MAX_TODOS + 1, "todo") }

SummarizeBodies ==
  { [shape |-> "unparseable", thrown |-> m] : m \in BodyErrors }
  \cup { [shape |-> "null"] }
  \cup { [shape |-> "object", todos |-> t, period |-> p,
          currentLocalDateTime |-> LocalStr(Now0)]
         : t \in SummarizeTodos, p \in {"today", "week", "month"} }
  \cup { [shape |-> "object", todos |-> t, period |-> "today",
          currentLocalDateTime |-> Absent] : t \in SummarizeTodos }
  \cup { [shape |-> "object", todos |-> t, period |-> "week",
          currentLocalDateTime |-> InvalidStr] : t \in SummarizeTodos }

\* an object of summarySchema: a summary and three lists of strings, of
\* which the model keeps the lengths
SummaryObjects ==
  { [summary |-> <<"a">>, urgentTasks |-> 1, insights |-> 2, recommendations |-> 2],
    [summary |-> <<"a">>, urgentTasks |-> 4, insights |-> 1, recommendations |-> 4] }

SummarizeOutcomes ==
  { Resolved(o) : o \in SummaryObjects } \cup { Rejected(m) : m \in ModelErrors }

\* ------------------------------------------------------------------------
\* The server process
\* ------------------------------------------------------------------------

Reqs == 1..MaxReq

Idle == [pc |-> "idle", route |-> "none", e |-> NoExchange]

\* no function is applied on its own while the server runs
NoProbe == [fn |-> "none"]

Init ==
  /\ lastIndex = 0
  /\ req = [r \in Reqs |-> Idle]
  /\ returned = NoExchange
  /\ zone \in TimeZones
  /\ probe = NoProbe
  /\ NoClient

\* a request arrives: POST starts and awaits request.json()
Receive(r) ==
  /\ returned = NoExchange
  /\ req[r].pc = "idle"
  /\ \E route \in {"parse", "summarize"} :
       req' = [req EXCEPT ![r] = [pc |-> "json", route |-> route, e |-> NoExchange]]
  /\ returned' = NoExchange
  /\ UNCHANGED <<lastIndex, zone, probe>>
  /\ UNCHANGED clientVars

\* request.json() of a parse request settles: POST runs to the await of
\* generateObject, or returns
ParseRead(r) ==
  /\ returned = NoExchange
  /\ req[r].pc = "json" /\ req[r].route = "parse"
  /\ \E body \in ParseBodies :
       LET step == parsePOST(body, lastIndex)
       IN /\ lastIndex' = step.lastIndex
          /\ IF step.done
             THEN req' = [req EXCEPT ![r] = Idle] /\ returned' = step.exchange
             ELSE /\ req' = [req EXCEPT ![r] = [pc |-> "model", route |-> "parse",
                                                e |-> step.exchange]]
                  /\ returned' = NoExchange
  /\ UNCHANGED <<zone, probe>>
  /\ UNCHANGED clientVars

\* generateObject of a parse request settles: POST runs to its return
ParseSettle(r) ==
  /\ returned = NoExchange
  /\ req[r].pc = "model" /\ req[r].route = "parse"
  /\ \E outcome \in ParseOutcomes :
       returned' = parseResume(req[r].e, outcome)
  /\ req' = [req EXCEPT ![r] = Idle]
  /\ UNCHANGED <<lastIndex, zone, probe>>
  /\ UNCHANGED clientVars

SummarizeRead(r) ==
  /\ returned = NoExchange
  /\ req[r].pc = "json" /\ req[r].route = "summarize"
  /\ \E body \in SummarizeBodies :
       LET step == summarizePOST(body)
       IN IF step.done
          THEN req' = [req EXCEPT ![r] = Idle] /\ returned' = step.exchange
          ELSE /\ req' = [req EXCEPT ![r] = [pc |-> "model", route |-> "summarize",
                                             e |-> step.exchange]]
               /\ returned' = NoExchange
  /\ UNCHANGED <<lastIndex, zone, probe>>
  /\ UNCHANGED clientVars

SummarizeSettle(r) ==
  /\ returned = NoExchange
  /\ req[r].pc = "model" /\ req[r].route = "summarize"
  /\ \E outcome \in SummarizeOutcomes :
       returned' = summarizeResume(req[r].e, outcome)
  /\ req' = [req EXCEPT ![r] = Idle]
  /\ UNCHANGED <<lastIndex, zone, probe>>
  /\ UNCHANGED clientVars

\* The returned response is written to the client.  No POST reads it, so
\* letting it leave before the next step of a POST loses no behaviour.
Respond ==
  /\ returned # NoExchange
  /\ returned' = NoExchange
  /\ UNCHANGED <<lastIndex, req, zone, probe>>
  /\ UNCHANGED clientVars

Next ==
  \/ \E r \in Reqs :
       \/ Receive(r)
       \/ ParseRead(r)
       \/ ParseSettle(r)
       \/ SummarizeRead(r)
       \/ SummarizeSettle(r)
  \/ Respond

Spec == Init /\ [][Next]_vars

\* ------------------------------------------------------------------------
\* computeStats of the summarize route, and the statistics of the client
\* ------------------------------------------------------------------------

\* Math.round(num / den) for num >= 0 and den > 0: a half rounds up
MathRound(num, den) == (2 * num + den) \div (2 * den)

\* (completed / total) * 100 is computed in binary floating point.  Of the
\* quotients of up to MAX_TODOS todos whose hundredfold is an exact half,
\* these come out just below the half (23 / 40 * 100 is 57.49999999999999).
InexactHalves == {<<23, 40>>, <<29, 200>>, <<57, 200>>, <<113, 200>>}

\* Math.round((completed / total) * 100) for 0 <= completed <= total,
\* 0 < total <= MAX_TODOS
Percent(completed, total) ==
  IF \E q \in InexactHalves : completed * q[2] = total * q[1]
  THEN (completed * 100) \div total
  ELSE MathRound(completed * 100, total)

\* rate cutting the fraction off
rate_Truncating(completed, total) ==
  IF total > 0 THEN (completed * 100) \div total ELSE 0

rate(completed, total) ==
  IF total > 0 THEN Percent(completed, total) ELSE 0

\* A Date object: the local calendar fields of its instant with seconds and
\* milliseconds, or an invalid date
Date(dt, s, ms) == [valid |-> TRUE, dt |-> dt, s |-> s, ms |-> ms]
InvalidDate == [valid |-> FALSE, dt |-> NoDate, s |-> 0, ms |-> 0]

\* new Date(v) of a string v
NewDate(v) ==
  IF v.kind \in {"local", "utc"} THEN Date(ParseDate(v), 0, 0) ELSE InvalidDate

\* a string that is neither null nor empty
Truthy(v) == v.kind \in {"local", "utc", "invalid"}

\* a < b for two Dates: false when either is invalid
Earlier(a, b) ==
  /\ a.valid /\ b.valid
  /\ \/ After(b.dt, a.dt)
     \/ a.dt = b.dt /\ a.s * 1000 + a.ms < b.s * 1000 + b.ms

\* a <= b for two Dates: false when either is invalid
NotLater(a, b) == a.valid /\ b.valid /\ ~Earlier(b, a)

\* date.setDate(d)
SetDate(date, d) ==
  LET c == CivilFromDays(DayNumber(date.dt.y, date.dt.mo, d))
  IN [date EXCEPT !.dt.y = c.y, !.dt.mo = c.mo, !.dt.d = c.d]

\* date.setHours(h, mi, s, ms)
SetHours(date, h, mi, s, ms) ==
  [date EXCEPT !.dt.h = h, !.dt.mi = mi, !.s = s, !.ms = ms]

\* date.getDay()
GetDay(date) == DayOfWeek(DayNumber(date.dt.y, date.dt.mo, date.dt.d))

\* weekMonday without the case of a Sunday
WeekMonday_NoSundayCase(now) ==
  IF ~now.valid THEN InvalidDate
  ELSE LET dayOfWeek == GetDay(now)
       IN SetHours(SetDate(now, now.dt.d - (dayOfWeek - 1)), 0, 0, 0, 0)

\* weekMonday of computeStats
WeekMonday(now) ==
  IF ~now.valid THEN InvalidDate
  ELSE LET dayOfWeek == GetDay(now)
       IN SetHours(SetDate(now, now.dt.d - (IF dayOfWeek = 0 THEN 6 ELSE dayOfWeek - 1)),
                   0, 0, 0, 0)

\* weekSunday of computeStats
WeekSunday(weekMonday) ==
  IF ~weekMonday.valid THEN InvalidDate
  ELSE SetHours(SetDate(weekMonday, weekMonday.dt.d + 6), 23, 59, 59, 999)

\* the first ten characters of a date string: "YYYY-MM-DD"
DateText(dt) == [y |-> dt.y, mo |-> dt.mo, d |-> dt.d]

\* todayStr: the local date of now, "NaN-NaN-NaN" of an invalid one
TodayStr(now) == IF now.valid THEN DateText(now.dt) ELSE [y |-> 0, mo |-> 0, d |-> 0]

\* t.due_at?.startsWith(todayStr): the text of due_at begins with todayStr
StartsWith(due_at, todayStr) ==
  due_at.kind \in {"local", "utc"} /\ DateText(due_at.dt) = todayStr

\* A todo as the routes and the client read it.  category "" is null or the
\* empty string.
Todo(completed, due_at, priority, category) ==
  [completed |-> completed, due_at |-> due_at, priority |-> priority,
   category |-> category]

\* the key of the todos without category
UNCATEGORIZED == "uncategorized"

\* a property every object literal inherits from Object.prototype
Inherited == {"constructor"}

\* t.category || UNCATEGORIZED
CategoryKey(t) == IF t.category = "" THEN UNCATEGORIZED ELSE t.category

\* the elements of s at the indices K, in their order: s.filter(...)
Pick(s, K) ==
  [j \in 1..Cardinality(K) |->
     s[CHOOSE i \in K : Cardinality({k \in K : k <= i}) = j]]

\* a count kept in a property of an object; (f || 0) + 1 of an inherited
\* function f is a string, and so is every count added to it
Counted(n) == [number |-> TRUE, n |-> n]
NotANumber == [number |-> FALSE, n |-> 0]

\* new Date(t.due_at).getHours() sorted into the four time slots; NaN
\* passes no comparison and falls into the last
TimeSlot(d) ==
  IF ~d.valid THEN "night"
  ELSE IF d.dt.h < 12 THEN "morning"
  ELSE IF d.dt.h < 17 THEN "afternoon"
  ELSE IF d.dt.h < 21 THEN "evening"
  ELSE "night"

computeStats(todos, nowStr) ==
  LET now == NewDate(nowStr)
      todayStr == TodayStr(now)
      weekMonday == WeekMonday(now)
      weekSunday == WeekSunday(weekMonday)
      I == 1..Len(todos)
      due(i) == NewDate(todos[i].due_at)
      today == {i \in I : StartsWith(todos[i].due_at, todayStr)}
      week == {i \in I : /\ Truthy(todos[i].due_at)
                         /\ NotLater(weekMonday, due(i))
                         /\ NotLater(due(i), weekSunday)}
      total == Len(todos)
      completed == Cardinality({i \in I : todos[i].completed})
      late == {i \in I : /\ ~todos[i].completed
                         /\ Truthy(todos[i].due_at)
                         /\ Earlier(due(i), now)}
      ofPriority(p) == {i \in I : todos[i].priority = p}
      ofCategory(k) == {i \in I : CategoryKey(todos[i]) = k}
      withDue == {i \in I : Truthy(todos[i].due_at)}
      lateList == {i \in I : /\ ~todos[i].completed
                             /\ Truthy(todos[i].due_at)
                             /\ Earlier(due(i), now)}
  IN [now |-> now,
      todayStr |-> todayStr,
      weekMonday |-> weekMonday,
      weekSunday |-> weekSunday,
      total |-> total,
      completed |-> completed,
      inProgress |-> total - completed,
      overdue |-> Cardinality(late),
      completionRate |-> rate(completed, total),
      todayTasks |-> Pick(todos, today),
      weekTasks |-> Pick(todos, week),
      completedThisWeek |-> Cardinality({i \in week : todos[i].completed}),
      priorityCompletion |->
        [p \in {"high", "medium", "low"} |->
          LET n == Cardinality(ofPriority(p))
              c == Cardinality({i \in ofPriority(p) : todos[i].completed})
          IN [total |-> n, completed |-> c, rate |-> rate(c, n)]],
      categoryCompletion |->
        [k \in {CategoryKey(todos[i]) : i \in I} \ Inherited |->
          [total |-> Cardinality(ofCategory(k)),
           completed |-> Cardinality({i \in ofCategory(k) : todos[i].completed}),
           overdue |-> Cardinality({i \in ofCategory(k) :
                                      /\ ~todos[i].completed
                                      /\ Truthy(todos[i].due_at)
                                      /\ Earlier(due(i), now)})]],
      deadlineAdherenceRate |->
        rate(Cardinality({i \in withDue : todos[i].completed}), Cardinality(withDue)),
      timeSlotDist |->
        [s \in {"morning", "afternoon", "evening", "night"} |->
          Cardinality({i \in withDue : TimeSlot(due(i)) = s})],
      dayOfWeekDist |->
        [w \in 0..6 |-> Cardinality({i \in withDue : due(i).valid /\ GetDay(due(i)) = w})],
      overdueByCategory |->
        [k \in {CategoryKey(todos[i]) : i \in lateList} |->
          IF k \in Inherited THEN NotANumber
          ELSE Counted(Cardinality(lateList \cap ofCategory(k)))],
      overdueByPriority |->
        [p \in {todos[i].priority : i \in lateList} |->
          Cardinality(lateList \cap ofPriority(p))]]

\* the statistics card of the main page
StatisticsCard(todos) ==
  LET totalCount == Len(todos)
      completedCount == Cardinality({i \in 1..Len(todos) : todos[i].completed})
  IN [totalCount |-> totalCount,
      completedCount |-> completedCount,
      inProgressCount |-> totalCount - completedCount,
      completionRate |-> IF totalCount > 0
                         THEN Percent(completedCount, totalCount) ELSE 0]

\* isSameLocalDay of the dialog
isSameLocalDay(dueAt, ref) ==
  LET d == NewDate(dueAt)
  IN /\ d.valid /\ ref.valid
     /\ d.dt.y = ref.dt.y /\ d.dt.mo = ref.dt.mo /\ d.dt.d = ref.dt.d

\* computeTodayStats of the dialog, with now for its new Date()
computeTodayStats(todos, now) ==
  LET I == 1..Len(todos)
      today == {i \in I : Truthy(todos[i].due_at) /\ isSameLocalDay(todos[i].due_at, now)}
      completed == Cardinality({i \in today : todos[i].completed})
      total == Cardinality(today)
  IN [todayTodos |-> Pick(todos, today),
      total |-> total,
      completed |-> completed,
      completionRate |-> IF total > 0 THEN Percent(completed, total) ELSE 0,
      allRemaining |-> Pick(todos, {i \in today : ~todos[i].completed}),
      overdueCount |-> Cardinality({i \in I : /\ ~todos[i].completed
                                              /\ Truthy(todos[i].due_at)
                                              /\ Earlier(NewDate(todos[i].due_at), now)})]

\* computeWeekStats of the dialog, with now for its new Date()
computeWeekStats(todos, now) ==
  LET I == 1..Len(todos)
      dow == GetDay(now)
      weekMonday == SetHours(SetDate(now, now.dt.d - (IF dow = 0 THEN 6 ELSE dow - 1)),
                             0, 0, 0, 0)
      weekSunday == SetHours(SetDate(weekMonday, weekMonday.dt.d + 6), 23, 59, 59, 999)
      week == {i \in I : /\ Truthy(todos[i].due_at)
                         /\ NotLater(weekMonday, NewDate(todos[i].due_at))
                         /\ NotLater(NewDate(todos[i].due_at), weekSunday)}
  IN [weekMonday |-> weekMonday,
      weekSunday |-> weekSunday,
      weekTodos |-> Pick(todos, week),
      total |-> Cardinality(week),
      completed |-> Cardinality({i \in week : todos[i].completed}),
      overdueCount |-> Cardinality({i \in I : /\ ~todos[i].completed
                                              /\ Truthy(todos[i].due_at)
                                              /\ Earlier(NewDate(todos[i].due_at), now)})]

\* ------------------------------------------------------------------------
\* The functions of the routes applied on their own
\* ------------------------------------------------------------------------

\* a function about to be applied to args, and the same once it returned out
Call(fn, args) == [fn |-> fn, args |-> args, done |-> FALSE, out |-> <<>>]
Return(call, out) == [call EXCEPT !.done = TRUE, !.out = out]

Returns(fn) == probe.fn = fn /\ probe.done

\* the server process at rest
AtRest ==
  /\ req = [r \in Reqs |-> Idle]
  /\ returned = NoExchange

\* ---- validateInput ----

\* all texts of up to MaxText characters
TextChars == {"a", "sp", "emo", "lt"}
ShortTexts == UNION {[1..n -> TextChars] : n \in 0..MaxText}

\* t followed by white space up to a raw length of n code units
Padded(t, n) == t \o Rep("sp", n - Length(t))

\* the short texts, the same padded to a raw length about MAX_LENGTH, and
\* texts of as many letters
ValidateTexts ==
  ShortTexts
  \cup {Padded(t, n) : t \in ShortTexts, n \in (MAX_LENGTH - 1)..(MAX_LENGTH + 1)}
  \cup {Rep("a", n) : n \in (MAX_LENGTH - 1)..(MAX_LENGTH + 1)}

\* what an earlier test() may have left in DANGEROUS_CHARS_REGEX.lastIndex
LastIndexes == 0..MaxText

InitValidate ==
  /\ AtRest
  /\ NoClient
  /\ zone = 0
  /\ lastIndex \in LastIndexes
  /\ probe \in {Call("validateInput", [text |-> Str(t), li |-> lastIndex])
                  : t \in ValidateTexts}

ApplyValidate ==
  /\ probe.fn = "validateInput" /\ ~probe.done
  /\ LET r == validateInput(probe.args.text, lastIndex)
     IN /\ probe' = Return(probe, r)
        /\ lastIndex' = r.lastIndex
  /\ UNCHANGED <<req, returned, zone>>
  /\ UNCHANGED clientVars

NextValidate == ApplyValidate

SpecValidate == InitValidate /\ [][NextValidate]_vars

\* ---- computeStats and the statistics of the client ----

\* due times about the reference instants below: none, unparseable, local
\* strings, and UTC strings as the database returns them
StatsDues ==
  { Null, EmptyStr, InvalidStr,
    LocalStr(DT(2026, 2, 17, 8, 59)),
    LocalStr(DT(2026, 2, 17, 9, 0)),
    UtcStr(DT(2026, 2, 17, 0, 0)),
    UtcStr(DT(2026, 2, 17, 15, 30)),
    LocalStr(DT(2026, 2, 15, 23, 59)),
    LocalStr(DT(2026, 2, 16, 0, 0)),
    LocalStr(DT(2026, 2, 22, 23, 59)),
    LocalStr(DT(2026, 2, 23, 0, 0)) }

StatsTodos ==
  { Todo(FALSE, d, "medium", "") : d \in StatsDues }
  \cup { Todo(TRUE, Null, "medium", ""),
         Todo(TRUE, LocalStr(DT(2026, 2, 17, 8, 59)), "medium", ""),
         Todo(TRUE, Null, "low", "work"),
         Todo(FALSE, LocalStr(DT(2026, 2, 17, 8, 59)), "high", "work"),
         Todo(FALSE, LocalStr(DT(2026, 2, 17, 8, 59)), "high", UNCATEGORIZED),
         Todo(FALSE, LocalStr(DT(2026, 2, 17, 8, 59)), "low", "constructor") }

\* all lists of up to MaxTodos of these todos
ShortLists == UNION {[1..n -> StatsTodos] : n \in 0..MaxTodos}

\* n todos of which the first c are completed
Mixed(c, n) == [i \in 1..n |-> Todo(i <= c, Null, "medium", "")]

LongLists == {Mixed(c, n) : c \in 0..MAX_TODOS, n \in {8, 40, MAX_TODOS}}

\* a Tuesday morning, and the first half hour of the Wednesday
ListNows == {DT(2026, 2, 17, 9, 0), DT(2026, 2, 18, 0, 30)}

\* every day of weeks that cross the end of a month, of a year and of a
\* February of a leap year, at three times of the day
WindowDays ==
  (DayNumber(2026, 12, 14)..DayNumber(2027, 1, 17))
  \cup (DayNumber(2028, 2, 21)..DayNumber(2028, 3, 5))

WindowNows ==
  { DT(CivilFromDays(n).y, CivilFromDays(n).mo, CivilFromDays(n).d, hm[1], hm[2]) :
      n \in WindowDays, hm \in {<<0, 0>>, <<9, 0>>, <<23, 59>>} }

StatsInputs ==
  { [todos |-> l, nowStr |-> LocalStr(n)] : l \in ShortLists \cup LongLists, n \in ListNows }
  \cup { [todos |-> l, nowStr |-> LocalStr(n)] :
           l \in {<<>>, <<Todo(FALSE, LocalStr(DT(2026, 12, 28, 0, 0)), "high", "work")>>},
           n \in WindowNows }

InitStats ==
  /\ AtRest
  /\ NoClient
  /\ lastIndex = 0
  /\ zone \in TimeZones
  /\ probe \in {Call("statistics", a) : a \in StatsInputs}

\* The dialog shows its statistics of the todos and sends them with its
\* local time to the summarize route, whose computeStats reads both.
ApplyStats ==
  /\ probe.fn = "statistics" /\ ~probe.done
  /\ LET todos == probe.args.todos
         now == NewDate(probe.args.nowStr)
     IN probe' = Return(probe, [server |-> computeStats(todos, probe.args.nowStr),
                                card |-> StatisticsCard(todos),
                                today |-> computeTodayStats(todos, now),
                                week |-> computeWeekStats(todos, now)])
  /\ UNCHANGED <<lastIndex, req, returned, zone>>
  /\ UNCHANGED clientVars

NextStats == ApplyStats

SpecStats == InitStats /\ [][NextStats]_vars

\* ---- postprocess ----

\* a title of two words of n1 and n2 letters, g spaces between them and t
\* spaces after them
TwoWords(n1, g, n2, t) == Rep("a", n1) \o Rep("sp", g) \o Rep("a", n2) \o Rep("sp", t)

\* titles about TITLE_MAX code units long: one word, two words that end
\* before, at and after the limit, three words, and an emoji across the limit
LongTitles ==
  { TwoWords(n1, g, n2, t) :
      n1 \in {1} \cup ((TITLE_MAX - 2)..(TITLE_MAX + 1)),
      g \in 0..2, n2 \in {0, 1, 60}, t \in 0..1 }
  \cup { Rep("a", 50) \o <<"sp">> \o TwoWords(n, 1, 50, 0) : n \in 47..50 }
  \cup { Rep("a", TITLE_MAX - 1) \o <<"emo">> \o Rep("a", 5),
         Rep("a", TITLE_MAX - 2) \o <<"emo">> \o Rep("a", 5) }

PostTitles == ShortTexts \cup LongTitles

\* the calendar fields name a minute of a day of a month
IsCalendar(dt) ==
  /\ dt.mo \in 1..12
  /\ dt.d \in 1..DaysInMonth(dt.y, dt.mo)
  /\ dt.h \in 0..23 /\ dt.mi \in 0..59

\* due dates of the years about the reference years, at the turn of the
\* year, about the end of February and about the time of the day of the
\* reference instants
DueGrid ==
  { dt \in { DT(y, md[1], md[2], hm[1], hm[2]) :
               y \in 2025..2030,
               md \in {<<1, 1>>, <<2, 17>>, <<2, 28>>, <<2, 29>>, <<3, 1>>, <<12, 31>>},
               hm \in {<<0, 0>>, <<8, 59>>, <<9, 0>>, <<9, 1>>, <<23, 59>>} } :
      IsCalendar(dt) }

\* what the model may return as due_at: null, an empty or unparseable
\* string, a local or a UTC date string, a local one of the year 999
RawDues ==
  {Null, EmptyStr, InvalidStr}
  \cup {LocalStr(dt) : dt \in DueGrid}
  \cup {UtcStr(dt) : dt \in DueGrid}
  \cup {LocalStr(DT(999, 1, 1, 0, 0))}

Raw(title, due_at) ==
  [title |-> title, due_at |-> due_at, priority |-> "high",
   category |-> NullStr, description |-> NullStr]

PostNows ==
  { LocalStr(Now0), LocalStr(DT(2028, 2, 29, 9, 0)),
    LocalStr(DT(2026, 12, 31, 23, 59)), InvalidStr }

PostInputs ==
  { [raw |-> Raw(t, Null), nowStr |-> LocalStr(Now0)] : t \in PostTitles }
  \cup { [raw |-> Raw(<<"a", "a">>, d), nowStr |-> n] : d \in RawDues, n \in PostNows }

InitPostprocess ==
  /\ AtRest
  /\ NoClient
  /\ lastIndex = 0
  /\ zone \in TimeZones
  /\ probe \in {Call("postprocess", a) : a \in PostInputs}

ApplyPostprocess ==
  /\ probe.fn = "postprocess" /\ ~probe.done
  /\ probe' = Return(probe, postprocess(probe.args.raw, probe.args.nowStr))
  /\ UNCHANGED <<lastIndex, req, returned, zone>>
  /\ UNCHANGED clientVars

NextPostprocess == ApplyPostprocess

SpecPostprocess == InitPostprocess /\ [][NextPostprocess]_vars

\* ------------------------------------------------------------------------
\* public.todos: the table, its constraints and its triggers
\* ------------------------------------------------------------------------

\* number of rows the table may hold
MaxRows == 2

RowIds == 1..MaxRows

SqlNull == "NULL"

\* a column a statement does not name
Unset == "unset"

\* no row under an id
NoRow == [exists |-> FALSE]

\* The columns the constraints and the triggers read, their values written
\* as SQL text.  A title is '' or a text of 1 or of 101 characters; a
\* timestamp is "now", NOW() of the statement that wrote it, or "given", a
\* value the statement carried.
Row(title, priority, completed, completed_at, updated_at) ==
  [exists |-> TRUE, title |-> title, priority |-> priority,
   completed |-> completed, completed_at |-> completed_at,
   updated_at |-> updated_at]

\* the columns of a statement: Unset where it names none
Columns(title, priority, completed, completed_at, updated_at) ==
  [title |-> title, priority |-> priority, completed |-> completed,
   completed_at |-> completed_at, updated_at |-> updated_at]

\* DEFAULT of each column; a column without one defaults to NULL
Defaults ==
  Columns(SqlNull, "medium", "false", SqlNull, "now")

\* the row an INSERT proposes
Inserted(cols) ==
  LET v(c) == IF cols[c] = Unset THEN Defaults[c] ELSE cols[c]
  IN Row(v("title"), v("priority"), v("completed"), v("completed_at"),
         v("updated_at"))

\* the row an UPDATE proposes for OLD
Updated(old, cols) ==
  LET v(c) == IF cols[c] = Unset THEN old[c] ELSE cols[c]
  IN Row(v("title"), v("priority"), v("completed"), v("completed_at"),
         v("updated_at"))

set_completed_at(new, old) ==
  LET set == IF new.completed = "true" /\ old.completed = "false"
             THEN [new EXCEPT !.completed_at = "now"]
             ELSE new
  IN IF set.completed = "false" /\ old.completed = "true"
     THEN [set EXCEPT !.completed_at = SqlNull]
     ELSE set

update_updated_at_column(new) == [new EXCEPT !.updated_at = "now"]

\* BEFORE UPDATE ... FOR EACH ROW: the triggers of a table fire in the
\* order of their names, set_todos_completed_at before
\* update_todos_updated_at
BeforeUpdate(new, old) ==
  update_updated_at_column(set_completed_at(new, old))

\* char_length() of a title
char_length(title) ==
  CASE title = "''" -> 0
    [] title = "'a'" -> 1
    [] title = "'aa...'" -> TITLE_MAX + 1

\* NOT NULL and CHECK of the columns
TableConstraints(row) ==
  /\ row.title # SqlNull
  /\ char_length(row.title) >= 1 /\ char_length(row.title) <= TITLE_MAX
  /\ row.priority \in {"high", "medium", "low"}
  /\ row.completed # SqlNull
  /\ row.updated_at # SqlNull

\* INSERT INTO public.todos: the table after the statement and whether the
\* statement was accepted.  The table of the model holds MaxRows rows: a
\* row beyond them is refused like one that violates a constraint.
SqlInsert(t, cols) ==
  LET row == Inserted(cols)
      free == {i \in RowIds : ~t[i].exists}
  IN IF free # {} /\ TableConstraints(row)
     THEN [table |-> [t EXCEPT ![Min(free)] = row], accepted |-> TRUE]
     ELSE [table |-> t, accepted |-> FALSE]

\* UPDATE public.todos SET ... WHERE id = id
SqlUpdate(t, id, cols) ==
  LET row == BeforeUpdate(Updated(t[id], cols), t[id])
  IN IF ~t[id].exists
     THEN [table |-> t, accepted |-> TRUE]
     ELSE IF TableConstraints(row)
          THEN [table |-> [t EXCEPT ![id] = row], accepted |-> TRUE]
          ELSE [table |-> t, accepted |-> FALSE]

\* DELETE FROM public.todos WHERE id = id
SqlDelete(t, id) == [table |-> [t EXCEPT ![id] = NoRow], accepted |-> TRUE]

EmptyTable == [i \in RowIds |-> NoRow]

\* ---- the statements a session of the authenticated role may send ----

StatementColumns ==
  {Columns(ti, p, c, ca, u) :
     ti \in {Unset, "''", "'a'", "'aa...'"},
     p \in {Unset, "high", "urgent"},
     c \in {Unset, "true", "false", SqlNull},
     ca \in {Unset, SqlNull, "given"},
     u \in {Unset, "given"}}

\* the statement executed last and whether it was accepted
Statement(fn, accepted) ==
  [fn |-> fn, args |-> <<>>, done |-> TRUE, out |-> accepted]

InitStore ==
  /\ AtRest
  /\ lastIndex = 0
  /\ zone = 0
  /\ probe = NoProbe
  /\ table = EmptyTable
  /\ pageTodos = <<>> /\ pending = <<>> /\ finished = <<>>
  /\ dialog = <<>> /\ user = <<>> /\ shown = <<>> /\ served = <<>>

Insert ==
  /\ \E cols \in StatementColumns :
       LET r == SqlInsert(table, cols)
       IN table' = r.table /\ probe' = Statement("INSERT", r.accepted)
  /\ UNCHANGED <<serverVars, zone>>
  /\ UNCHANGED <<pageTodos, pending, finished, dialog, user, shown, served>>

Update ==
  /\ \E id \in RowIds, cols \in StatementColumns :
       LET r == SqlUpdate(table, id, cols)
       IN table' = r.table /\ probe' = Statement("UPDATE", r.accepted)
  /\ UNCHANGED <<serverVars, zone>>
  /\ UNCHANGED <<pageTodos, pending, finished, dialog, user, shown, served>>

Delete ==
  /\ \E id \in RowIds :
       LET r == SqlDelete(table, id)
       IN table' = r.table /\ probe' = Statement("DELETE", r.accepted)
  /\ UNCHANGED <<serverVars, zone>>
  /\ UNCHANGED <<pageTodos, pending, finished, dialog, user, shown, served>>

NextStore == Insert \/ Update \/ Delete

SpecStore == InitStore /\ [][NextStore]_vars

\* ------------------------------------------------------------------------
\* The route guard (middleware) and the login page
\* ------------------------------------------------------------------------

\* A pathname is a sequence of the tokens "/", a name ("login", "signup",
\* "reset-password", "x", "api", "_next/static", "favicon.ico") and ".png",
\* the extension of an asset: <<"/", "login", "x">> is /loginx.

AUTH_ONLY_PATHS ==
  {<<"/", "login">>, <<"/", "signup">>, <<"/", "reset-password">>}

Root == <<"/">>

\* pathname.startsWith(prefix)
PathStartsWith(pathname, prefix) ==
  Len(pathname) >= Len(prefix) /\ SubSeq(pathname, 1, Len(prefix)) = prefix

\* AUTH_ONLY_PATHS.some(...) testing startsWith(path) without the slash
isAuthOnlyPath_NoSlash(pathname) ==
  \E path \in AUTH_ONLY_PATHS :
    pathname = path \/ PathStartsWith(pathname, path)

isAuthOnlyPath(pathname) ==
  \E path \in AUTH_ONLY_PATHS :
    pathname = path \/ PathStartsWith(pathname, path \o <<"/">>)

NoUser == "none"
NoNext == <<>>

\* NextResponse.redirect(url) and the response that lets the request pass
Redirect(pathname, next) ==
  [kind |-> "redirect", pathname |-> pathname, next |-> next]
PassThrough == [kind |-> "pass", pathname |-> <<>>, next |-> NoNext]

\* middleware, after getUser() has settled with u
middleware(pathname, u) ==
  IF u = NoUser /\ ~isAuthOnlyPath(pathname)
  THEN Redirect(<<"/", "login">>, pathname)
  ELSE IF u # NoUser /\ isAuthOnlyPath(pathname)
       THEN Redirect(Root, NoNext)
       ELSE PassThrough

\* config.matcher: the requests the middleware is applied to
matcher(pathname) ==
  /\ ~(Len(pathname) >= 2
       /\ pathname[2] \in {"_next/static", "_next/image", "favicon.ico"})
  /\ pathname[Len(pathname)] # ".png"

\* the pathnames the browser asks for
Pathnames ==
  {Root,
   <<"/", "login">>, <<"/", "signup">>, <<"/", "reset-password">>,
   <<"/", "login", "/">>, <<"/", "login", "/", "x">>,
   <<"/", "signup", "/", "x">>, <<"/", "reset-password", "/", "x">>,
   <<"/", "login", "x">>, <<"/", "x", "/", "login">>,
   <<"/", "x">>, <<"/", "api", "/", "x">>,
   <<"/", "x", ".png">>, <<"/", "_next/static", "/", "x">>}

\* a page on the screen
Page(pathname, next, error) ==
  [pathname |-> pathname, next |-> next, error |-> error]

\* One request of the browser and what came back: the middleware answers
\* the requests its matcher selects, the others go to the route as they are.
\* from is the page the request was made from.
Served(pathname, next, u, cause) ==
  [pathname |-> pathname, next |-> next, user |-> u, cause |-> cause,
   from |-> shown,
   handled |-> matcher(pathname),
   response |-> IF matcher(pathname) THEN middleware(pathname, u)
                ELSE PassThrough]

NothingServed ==
  [pathname |-> <<>>, next |-> NoNext, user |-> NoUser, cause |-> "none",
   from |-> Page(<<>>, NoNext, FALSE),
   handled |-> FALSE, response |-> PassThrough]

\* the browser asks for pathname: served and, unless the response is a
\* redirect, shown
Load(pathname, next, u, cause) ==
  LET s == Served(pathname, next, u, cause)
  IN /\ served' = s
     /\ shown' = IF s.response.kind = "pass"
                 THEN Page(pathname, next, FALSE)
                 ELSE shown

Redirected == served.response.kind = "redirect"

InitAuth ==
  /\ AtRest
  /\ lastIndex = 0
  /\ zone = 0
  /\ probe = NoProbe
  /\ table = <<>> /\ pageTodos = <<>> /\ pending = <<>> /\ finished = <<>>
  /\ dialog = <<>>
  /\ user \in {NoUser, "u1"}
  /\ shown = Page(<<>>, NoNext, FALSE)
  /\ served = NothingServed

\* the user opens a location
Navigate ==
  /\ ~Redirected
  /\ \E pathname \in Pathnames : Load(pathname, NoNext, user, "navigate")
  /\ UNCHANGED user
  /\ UNCHANGED <<serverVars, zone, probe>>
  /\ UNCHANGED <<table, pageTodos, pending, finished, dialog>>

\* the browser follows the redirect it was answered with
FollowRedirect ==
  /\ Redirected
  /\ Load(served.response.pathname, served.response.next, user, "redirect")
  /\ UNCHANGED user
  /\ UNCHANGED <<serverVars, zone, probe>>
  /\ UNCHANGED <<table, pageTodos, pending, finished, dialog>>

\* LoginPage.onSubmit: signInWithPassword settles, with an error or with a
\* session; then router.push('/')
LoginSubmit ==
  /\ ~Redirected
  /\ shown.pathname = <<"/", "login">>
  /\ \E signInError \in BOOLEAN :
       IF signInError
       THEN /\ shown' = [shown EXCEPT !.error = TRUE]
            /\ UNCHANGED <<user, served>>
       ELSE /\ user' = "u1"
            /\ Load(Root, NoNext, "u1", "login")
  /\ UNCHANGED <<serverVars, zone, probe>>
  /\ UNCHANGED <<table, pageTodos, pending, finished, dialog>>

\* Header.handleLogout: signOut settles without error; then
\* router.push('/login')
Logout ==
  /\ ~Redirected
  /\ user # NoUser
  /\ shown.pathname # <<>> /\ ~isAuthOnlyPath(shown.pathname)
  /\ user' = NoUser
  /\ Load(<<"/", "login">>, NoNext, NoUser, "logout")
  /\ UNCHANGED <<serverVars, zone, probe>>
  /\ UNCHANGED <<table, pageTodos, pending, finished, dialog>>

\* the session ends on its own (its token expires or is revoked)
SessionEnds ==
  /\ user # NoUser
  /\ user' = NoUser
  /\ UNCHANGED <<shown, served>>
  /\ UNCHANGED <<serverVars, zone, probe>>
  /\ UNCHANGED <<table, pageTodos, pending, finished, dialog>>

NextAuth ==
  \/ Navigate
  \/ FollowRedirect
  \/ LoginSubmit
  \/ Logout
  \/ SessionEnds

SpecAuth == InitAuth /\ [][NextAuth]_vars

\* ------------------------------------------------------------------------
\* HomePage: its handlers, and the statements they send to public.todos
\* ------------------------------------------------------------------------

\* number of handlers of HomePage called in one run
MaxCalls == 3

\* The response a handler awaits: not there yet, or data and error of the
\* supabase call once it has settled.
NotSettled == [settled |-> FALSE, error |-> FALSE, data |-> EmptyTable]
Settled(error, data) == [settled |-> TRUE, error |-> error, data |-> data]

\* A handler suspended at an await: which handler, its arguments, the
\* supabase call it awaits (at) and the response to it.  failed remembers
\* that the write of the handler came back with an error; viaDialog that
\* handleAdd of AiTodoDialog awaits the handler.
Awaiting(n, handler, id, cols, at, failed, viaDialog) ==
  [n |-> n, handler |-> handler, id |-> id, cols |-> cols, at |-> at,
   failed |-> failed, viaDialog |-> viaDialog, response |-> NotSettled]

\* the columns handleAddTodo inserts
AddColumns(title) == Columns(title, "medium", "false", Unset, Unset)

\* the columns handleUpdateTodo writes
EditColumns(title, priority) == Columns(title, priority, Unset, Unset, "given")

\* the columns handleToggleComplete writes
ToggleColumns(completed) ==
  Columns(Unset, Unset, completed,
          IF completed = "true" THEN "given" ELSE SqlNull, "given")

\* the optimistic update of handleToggleComplete
Optimistic(list, id, completed) ==
  [i \in RowIds |->
     IF i = id /\ list[i].exists
     THEN [list[i] EXCEPT !.completed = completed,
                          !.completed_at = IF completed = "true" THEN "given"
                                           ELSE SqlNull,
                          !.updated_at = "given"]
     ELSE list[i]]

\* prev.filter((todo) => todo.id !== id)
Without(list, id) == [list EXCEPT ![id] = NoRow]

\* what the handlers have done so far: how many were called, whether a
\* supabase call came back with an error, and the handler that returned last
NoCall == [handler |-> "none", id |-> 0, failed |-> FALSE]
History(issued, failed, last) ==
  [issued |-> issued, failed |-> failed, last |-> last]

\* the table when the page is opened: empty, or with one open todo
InitialTables ==
  {EmptyTable,
   [EmptyTable EXCEPT ![1] = Row("'a'", "medium", "false", SqlNull, "now")]}

InitPage ==
  /\ AtRest
  /\ lastIndex = 0
  /\ zone = 0
  /\ probe = NoProbe
  /\ table \in InitialTables
  /\ pageTodos = table
  /\ pending = {}
  /\ finished = History(0, FALSE, NoCall)
  /\ dialog = <<>> /\ user = <<>> /\ shown = <<>> /\ served = <<>>

\* a handler is called and runs to its first await
Called(handler, id, cols, at, viaDialog) ==
  /\ finished.issued < MaxCalls
  /\ pending' = pending \cup
       {Awaiting(finished.issued + 1, handler, id, cols, at, FALSE, viaDialog)}
  /\ finished' = [finished EXCEPT !.issued = @ + 1]

\* isSubmitting: handleAddTodo or handleUpdateTodo has not returned
isSubmitting == \E c \in pending : c.handler \in {"add", "edit"}

\* TodoCard calls onToggleComplete(todo.id, !todo.completed)
HandleToggleComplete ==
  /\ \E id \in RowIds :
       /\ pageTodos[id].exists
       /\ LET completed == IF pageTodos[id].completed = "true" THEN "false"
                           ELSE "true"
          IN /\ pageTodos' = Optimistic(pageTodos, id, completed)
             /\ Called("toggle", id, ToggleColumns(completed), "update", FALSE)
  /\ UNCHANGED <<serverVars, zone, probe>>
  /\ UNCHANGED <<table, dialog, user, shown, served>>

\* TodoForm submits a new todo
HandleAddTodo ==
  /\ ~isSubmitting
  /\ Called("add", 0, AddColumns("'a'"), "insert", FALSE)
  /\ UNCHANGED <<serverVars, zone, probe>>
  /\ UNCHANGED <<table, pageTodos, dialog, user, shown, served>>

\* TodoForm submits the todo being edited
HandleUpdateTodo ==
  /\ ~isSubmitting
  /\ \E id \in RowIds :
       /\ pageTodos[id].exists
       /\ Called("edit", id, EditColumns("'a'", "high"), "update", FALSE)
  /\ UNCHANGED <<serverVars, zone, probe>>
  /\ UNCHANGED <<table, pageTodos, dialog, user, shown, served>>

HandleDeleteTodo ==
  /\ \E id \in RowIds :
       /\ pageTodos[id].exists
       /\ Called("delete", id, Columns(Unset, Unset, Unset, Unset, Unset),
                 "delete", FALSE)
  /\ UNCHANGED <<serverVars, zone, probe>>
  /\ UNCHANGED <<table, pageTodos, dialog, user, shown, served>>

\* the statement of a supabase call, executed on the table
Execute(t, c) ==
  CASE c.at = "insert" -> SqlInsert(t, c.cols)
    [] c.at = "update" -> SqlUpdate(t, c.id, c.cols)
    [] c.at = "delete" -> SqlDelete(t, c.id)
    [] c.at = "select" -> [table |-> t, accepted |-> TRUE]

\* The server answers a supabase call: it executes the statement, or the
\* call fails before any statement runs (network, expired session).  The
\* calls in flight are answered in any order.
ServerAnswers ==
  /\ \E c \in pending :
       /\ ~c.response.settled
       /\ \E reached \in BOOLEAN :
            LET r == IF reached THEN Execute(table, c)
                     ELSE [table |-> table, accepted |-> FALSE]
                data == IF c.at = "select" /\ r.accepted THEN r.table
                        ELSE EmptyTable
            IN /\ table' = r.table
               /\ pending' = (pending \ {c}) \cup
                    {[c EXCEPT !.response = Settled(~r.accepted, data)]}
               /\ finished' = [finished EXCEPT !.failed = @ \/ ~r.accepted]
  /\ UNCHANGED <<serverVars, zone, probe>>
  /\ UNCHANGED <<pageTodos, dialog, user, shown, served>>

\* fetchTodos is the next await of handler c
AwaitFetchTodos(c, failed) ==
  pending' = (pending \ {c}) \cup
    {Awaiting(c.n, c.handler, c.id, c.cols, "select", failed, c.viaDialog)}

\* handler c returns: it leaves the handlers in flight
HandlerReturns(c, failed) ==
  /\ pending' = pending \ {c}
  /\ finished' = [finished EXCEPT
       !.last = [handler |-> c.handler, id |-> c.id, failed |-> failed]]

\* ---- AiTodoDialog ----

\* The state of AiTodoDialog and the isOpen it is given.  input is "", " "
\* (blank) or "a"; parsedResult and error are "null" or set.  untouched and
\* added are not state of the component: untouched says that the user has
\* not acted on the dialog since handleClose ran, added is the outcome of
\* onAddTodo when handleAdd resumed last ("none" once the user acts again).
Dialog(isOpen, input, isParsing, parsedResult, error, untouched, added) ==
  [isOpen |-> isOpen, input |-> input, isParsing |-> isParsing,
   parsedResult |-> parsedResult, error |-> error,
   untouched |-> untouched, added |-> added]

\* handleClose: setInput(''), setParsedResult(null), setError(null),
\* onClose()
handleClose(d) ==
  [d EXCEPT !.input = "", !.parsedResult = "null", !.error = "null",
            !.isOpen = FALSE, !.untouched = TRUE]

\* handleAdd after await onAddTodo(...): handleAddTodo catches its errors
\* and resolves either way, and handleClose() follows
handleAddResumes(d, failed) ==
  [handleClose(d) EXCEPT !.added = IF failed THEN "failed" ELSE "stored"]

\* ---- the handlers resume ----

\* The response of the supabase call a handler awaits is there: the handler
\* runs on to its next await or returns.
Resumes ==
  /\ \E c \in pending :
       /\ c.response.settled
       /\ LET error == c.response.error
              \* the handler returns; handleAdd, if it awaits it, resumes
              return(failed) ==
                /\ HandlerReturns(c, failed)
                /\ dialog' = IF c.viaDialog
                             THEN handleAddResumes(dialog, failed)
                             ELSE dialog
              fetch(failed) ==
                /\ AwaitFetchTodos(c, failed)
                /\ UNCHANGED <<finished, dialog>>
          IN CASE c.at = "select" ->
                    \* fetchTodos: setTodos(data), or the toast of its catch
                    /\ pageTodos' = IF error THEN pageTodos
                                    ELSE c.response.data
                    /\ return(c.failed)
               [] c.at = "insert" \/ (c.at = "update" /\ c.handler = "edit") ->
                    \* handleAddTodo, handleUpdateTodo
                    /\ UNCHANGED pageTodos
                    /\ IF error THEN return(TRUE) ELSE fetch(FALSE)
               [] c.at = "update" /\ c.handler = "toggle" ->
                    \* handleToggleComplete
                    /\ UNCHANGED pageTodos
                    /\ IF error THEN fetch(TRUE) ELSE return(FALSE)
               [] c.at = "delete" ->
                    \* handleDeleteTodo
                    IF error
                    THEN UNCHANGED pageTodos /\ fetch(TRUE)
                    ELSE pageTodos' = Without(pageTodos, c.id) /\ return(FALSE)
  /\ UNCHANGED <<serverVars, zone, probe>>
  /\ UNCHANGED <<table, user, shown, served>>

NextPage ==
  \/ HandleToggleComplete
  \/ HandleAddTodo
  \/ HandleUpdateTodo
  \/ HandleDeleteTodo
  \/ ServerAnswers
  \/ Resumes

SpecPage == InitPage /\ [][NextPage]_vars

\* ---- AiTodoDialog in HomePage ----

InitDialog ==
  /\ AtRest
  /\ lastIndex = 0
  /\ zone = 0
  /\ probe = NoProbe
  /\ table \in InitialTables
  /\ pageTodos = table
  /\ pending = {}
  /\ finished = History(0, FALSE, NoCall)
  /\ dialog = Dialog(FALSE, "", FALSE, "null", "null", TRUE, "none")
  /\ user = <<>> /\ shown = <<>> /\ served = <<>>

\* the button that opens the dialog: setIsAiDialogOpen(true)
OpenAiDialog ==
  /\ ~dialog.isOpen
  /\ dialog' = [dialog EXCEPT !.isOpen = TRUE, !.added = "none"]
  /\ UNCHANGED <<serverVars, zone, probe>>
  /\ UNCHANGED <<table, pageTodos, pending, finished, user, shown, served>>

\* the user types, or picks an example prompt
SetInput ==
  /\ dialog.isOpen /\ dialog.parsedResult = "null" /\ ~dialog.isParsing
  /\ \E text \in {"", " ", "a"} :
       dialog' = [dialog EXCEPT !.input = text, !.untouched = FALSE,
                                !.added = "none"]
  /\ UNCHANGED <<serverVars, zone, probe>>
  /\ UNCHANGED <<table, pageTodos, pending, finished, user, shown, served>>

\* handleParse up to its await of fetch('/api/ai/parse-todo')
HandleParse ==
  /\ dialog.isOpen /\ dialog.parsedResult = "null" /\ ~dialog.isParsing
  /\ dialog' = IF dialog.input \in {"", " "}
               THEN [dialog EXCEPT !.added = "none"]
               ELSE [dialog EXCEPT !.isParsing = TRUE, !.error = "null",
                                   !.untouched = FALSE, !.added = "none"]
  /\ UNCHANGED <<serverVars, zone, probe>>
  /\ UNCHANGED <<table, pageTodos, pending, finished, user, shown, served>>

\* handleParse after its awaits: the response of the route is there, with
\* a parsed todo (of a title of 1 or of 101 characters) or with an error
ParseResponds ==
  /\ dialog.isParsing
  /\ \E parsed \in {"null", "'a'", "'aa...'"} :
       dialog' = IF parsed = "null"
                 THEN [dialog EXCEPT !.error = "message", !.isParsing = FALSE]
                 ELSE [dialog EXCEPT !.parsedResult = parsed,
                                     !.isParsing = FALSE]
  /\ UNCHANGED <<serverVars, zone, probe>>
  /\ UNCHANGED <<table, pageTodos, pending, finished, user, shown, served>>

\* Escape, a click on the overlay or the cancel button: onOpenChange
HandleClose ==
  /\ dialog.isOpen
  /\ dialog' = [handleClose(dialog) EXCEPT !.added = "none"]
  /\ UNCHANGED <<serverVars, zone, probe>>
  /\ UNCHANGED <<table, pageTodos, pending, finished, user, shown, served>>

\* the back button of the result step
HandleReset ==
  /\ dialog.isOpen /\ dialog.parsedResult # "null" /\ ~isSubmitting
  /\ dialog' = [dialog EXCEPT !.parsedResult = "null", !.error = "null",
                              !.untouched = FALSE, !.added = "none"]
  /\ UNCHANGED <<serverVars, zone, probe>>
  /\ UNCHANGED <<table, pageTodos, pending, finished, user, shown, served>>

\* handleAdd up to the first await of the handleAddTodo it awaits
HandleAdd ==
  /\ dialog.isOpen /\ dialog.parsedResult # "null" /\ ~isSubmitting
  /\ Called("add", 0, AddColumns(dialog.parsedResult), "insert", TRUE)
  /\ dialog' = [dialog EXCEPT !.untouched = FALSE, !.added = "none"]
  /\ UNCHANGED <<serverVars, zone, probe>>
  /\ UNCHANGED <<table, pageTodos, user, shown, served>>

NextDialog ==
  \/ OpenAiDialog
  \/ SetInput
  \/ HandleParse
  \/ ParseResponds
  \/ HandleClose
  \/ HandleReset
  \/ HandleAdd
  \/ ServerAnswers
  \/ Resumes

SpecDialog == InitDialog /\ [][NextDialog]_vars

\* ------------------------------------------------------------------------
\* HomePage.getFilteredTodos
\* ------------------------------------------------------------------------

\* A text of a todo or of the search box is a sequence of the letters "a",
\* "A" and "b".  A due_at is "null", "past" or "future" (seen from the
\* moment of rendering); created_at is a number, later for larger ones.

toLowerCase(s) == [i \in 1..Len(s) |-> IF s[i] = "A" THEN "a" ELSE s[i]]

\* s.includes(q)
includes(s, q) ==
  \E i \in 0..(Len(s) - Len(q)) : SubSeq(s, i + 1, i + Len(q)) = q

\* a row as the page holds it
PageTodo(id, title, description, priority, category, completed, due_at) ==
  [id |-> id, title |-> title, description |-> description,
   priority |-> priority, category |-> category, completed |-> completed,
   due_at |-> due_at, created_at |-> id]

getTodoStatus(todo) ==
  IF todo.completed THEN "completed"
  ELSE IF todo.due_at = "null" THEN "progress"
       ELSE IF todo.due_at = "past" THEN "delayed" ELSE "progress"

\* -1, 0 or 1 as the sequence of numbers x comes before, with or after y
LexCompare(x, y) ==
  LET n == Min({Len(x), Len(y)})
      diff == {i \in 1..n : x[i] # y[i]}
  IN IF diff = {}
     THEN IF Len(x) < Len(y) THEN -1 ELSE IF Len(x) > Len(y) THEN 1 ELSE 0
     ELSE IF x[Min(diff)] < y[Min(diff)] THEN -1 ELSE 1

\* a.localeCompare(b, 'ko'): by the letters first, a lower-case letter
\* before its capital where the letters are the same
localeCompare(a, b) ==
  LET letter(ch) == IF ch = "b" THEN 2 ELSE 1
      cased(ch) == IF ch = "A" THEN 2 ELSE 1
      letters(s) == [i \in 1..Len(s) |-> letter(s[i])]
      cases(s) == [i \in 1..Len(s) |-> cased(s[i])]
  IN IF LexCompare(letters(a), letters(b)) # 0
     THEN LexCompare(letters(a), letters(b))
     ELSE LexCompare(cases(a), cases(b))

\* the order object of the priority sorts
PriorityOrder(priority) ==
  CASE priority = "high" -> 0
    [] priority = "medium" -> 1
    [] priority = "low" -> 2

\* new Date(due_at).getTime(), up to the order of the instants
getTime(due_at) == IF due_at = "past" THEN 1 ELSE 2

\* the comparator of filtered.sort
compare(a, b, sortBy) ==
  CASE sortBy = "title_asc" -> localeCompare(a.title, b.title)
    [] sortBy = "title_desc" -> localeCompare(b.title, a.title)
    [] sortBy = "priority_asc" ->
         PriorityOrder(a.priority) - PriorityOrder(b.priority)
    [] sortBy = "priority_desc" ->
         PriorityOrder(b.priority) - PriorityOrder(a.priority)
    [] sortBy = "due_asc" ->
         IF a.due_at = "null" THEN 1
         ELSE IF b.due_at = "null" THEN -1
              ELSE getTime(a.due_at) - getTime(b.due_at)
    [] sortBy = "due_desc" ->
         IF a.due_at = "null" THEN 1
         ELSE IF b.due_at = "null" THEN -1
              ELSE getTime(b.due_at) - getTime(a.due_at)
    [] sortBy = "created_asc" -> a.created_at - b.created_at
    [] OTHER -> b.created_at - a.created_at

\* Array.prototype.sort, which is stable: an element comes before the ones
\* the comparator puts it before, and before the later ones it ties with
sort(list, sortBy) ==
  LET n == Len(list)
      before(i, j) ==
        \/ compare(list[i], list[j], sortBy) < 0
        \/ compare(list[i], list[j], sortBy) = 0 /\ i < j
      place(i) == 1 + Cardinality({j \in 1..n : j # i /\ before(j, i)})
  IN [k \in 1..n |-> list[CHOOSE i \in 1..n : place(i) = k]]

\* filters of the toolbar
Filters(priority, status, category) ==
  [priority |-> priority, status |-> status, category |-> category]

getFilteredTodos(list, searchQuery, filters, sortBy) ==
  LET query == toLowerCase(searchQuery)
      bySearch(todo) ==
        searchQuery = <<>> \/ includes(toLowerCase(todo.title), query)
      byPriority(todo) ==
        filters.priority = {} \/ todo.priority \in filters.priority
      byStatus(todo) ==
        filters.status = {} \/ getTodoStatus(todo) \in filters.status
      byCategory(todo) ==
        filters.category = "" \/ todo.category = filters.category
      keep(todo) ==
        bySearch(todo) /\ byPriority(todo) /\ byStatus(todo) /\ byCategory(todo)
  IN sort(SelectSeq(list, keep), sortBy)

\* ---- getFilteredTodos applied on its own ----

FilterTodos ==
  {PageTodo(1, <<"a", "b">>, NullStr, "high", "work", TRUE, "null"),
   PageTodo(2, <<"A", "b">>, Str(<<"b">>), "medium", "", FALSE, "past"),
   PageTodo(3, <<"b">>, Str(<<"b", "a">>), "low", "work", FALSE, "future"),
   PageTodo(4, <<"b">>, NullStr, "high", "", FALSE, "past"),
   PageTodo(5, <<"b", "a">>, Str(<<"A">>), "medium", "work", FALSE, "null")}

\* The lists of up to MaxTodos todos, each todo once.  Under the sorts by
\* due date the comparator answers 1 both ways for two todos without a due
\* date, and their order is left to the engine: such lists are not drawn.
FilterLists(sortBy) ==
  {l \in UNION {[1..n -> FilterTodos] : n \in 0..MaxTodos} :
     /\ \A i, j \in 1..Len(l) : i # j => l[i].id # l[j].id
     /\ sortBy \in {"due_asc", "due_desc"}
          => Cardinality({i \in 1..Len(l) : l[i].due_at = "null"}) <= 1}

SortKeys ==
  {"title_asc", "title_desc", "priority_asc", "priority_desc",
   "due_asc", "due_desc", "created_asc", "created_desc"}

SearchQueries == {<<>>, <<"a">>, <<"A">>, <<"a", "b">>, <<"b", "b">>}

\* getFilteredTodos is about to be applied to the state of the page
FilterCall(l, q, p, s, c, k) ==
  Call("getFilteredTodos",
       [todos |-> l, searchQuery |-> q, filters |-> Filters(p, s, c),
        sortBy |-> k])

InitFilter ==
  /\ AtRest
  /\ NoClient
  /\ lastIndex = 0
  /\ zone = 0
  /\ \E k \in SortKeys :
       \E l \in FilterLists(k), q \in SearchQueries, p \in {{}, {"high"}},
          s \in {{}, {"completed", "delayed"}}, c \in {"", "work"} :
         probe = FilterCall(l, q, p, s, c, k)

ApplyFilter ==
  /\ probe.fn = "getFilteredTodos" /\ ~probe.done
  /\ probe' = Return(probe, getFilteredTodos(probe.args.todos,
                                             probe.args.searchQuery,
                                             probe.args.filters,
                                             probe.args.sortBy))
  /\ UNCHANGED <<lastIndex, req, returned, zone>>
  /\ UNCHANGED clientVars

NextFilter == ApplyFilter

SpecFilter == InitFilter /\ [][NextFilter]_vars

\* ------------------------------------------------------------------------
\* Properties
\* ------------------------------------------------------------------------

\* an exchange of the given route has just been returned
Returned(route) == returned # NoExchange /\ returned.route = route

\* the returned exchange is of a parse request whose body is an object with
\* a string as text
ReturnedText == Returned("parse") /\ returned.body.shape = "object"
                  /\ returned.body.text.type = "string"

HasDangerous(s) == \E i \in 1..Len(s) : DANGEROUS_CHARS_REGEX(s[i])

\* the exchanges in flight and the returned one
Exchanges ==
  {req[r].e : r \in {q \in Reqs : req[q].pc = "model"}}
    \cup (IF returned = NoExchange THEN {} ELSE {returned})

\* C1: every parse request whose text contains a dangerous character is
\* rejected by validateInput with HTTP 400, whatever requests the process
\* validated before it.
C1_DangerousAlwaysRejected ==
  (ReturnedText /\ HasDangerous(returned.body.text.s))
    => returned.response.status = 400

\* C2: the validation verdict and the normalized text of a parse request are
\* those the same request gets from a process that has handled nothing yet
\* (lastIndex = 0): they depend on the request's own text only.
C2_VerdictDependsOnTextOnly ==
  ReturnedText
    => LET fresh == parsePOST(returned.body, 0).exchange
       IN /\ returned.validation = fresh.validation
          /\ returned.cleanedText = fresh.cleanedText

\* C3: a request answered with HTTP 400 has not called the model, and the
\* model is called only for a request all of whose validation checks passed.
C3_ValidationShortCircuits ==
  \A e \in Exchanges :
    /\ (e.response.status = 400 => e.calls = 0)
    /\ (e.calls > 0 => e.validation.ok)

C3_Witness ==
  /\ Returned("summarize")
  /\ returned.response.status = 400
  /\ returned.validation.error = "more than MAX_TODOS todos"
  /\ returned.calls = 0

\* C4: within one request the model is called at most once; a failed call is
\* answered with an error response and is the request's only call.
C4_NoRetry ==
  \A e \in Exchanges :
    /\ e.calls <= 1
    /\ (e.outcome.settled /\ ~e.outcome.ok)
         => /\ e.calls = 1
            /\ e.threw = "model"
            /\ e.response.status \in {429, 500}
            /\ DOMAIN e.response.body = {"error"}

C4_Witness ==
  /\ Returned("parse")
  /\ returned.outcome.settled /\ ~returned.outcome.ok
  /\ returned.calls = 1
  /\ returned.response.status = 500

\* C5: the parse pipeline runs validate, normalize, the length check of the
\* normalized text, the model call and postprocess in this order: the model
\* is called only with the normalized form, of length >= MIN_LENGTH, of a
\* string validateInput passed, and every HTTP 200 response is postprocess
\* of the one object that call resolved with.
C5_ParseStagesInOrder ==
  \A e \in {x \in Exchanges : x.route = "parse"} :
    /\ e.calls > 0
         => /\ e.body.shape = "object" /\ e.body.text.type = "string"
            /\ e.validation = Passed
            /\ e.cleanedText = preprocessText(e.body.text.s)
            /\ Length(e.cleanedText) >= MIN_LENGTH
    /\ e.response.status = 200
         => /\ e.calls = 1
            /\ e.outcome.settled /\ e.outcome.ok
            /\ e.response.body
                 = postprocess(e.outcome.object, NowStr(e.body.currentLocalDateTime))

C5_Witness ==
  /\ Returned("parse")
  /\ returned.response.status = 200
  /\ returned.cleanedText = <<"a", "sp", "sp", "a">>
  /\ returned.response.body.title = PLACEHOLDER_TITLE

\* C6: a failed model call whose message reports quota exhaustion is answered
\* with HTTP 429, and nothing else is answered with HTTP 429.
C6_QuotaIff429 ==
  \A route \in {"parse", "summarize"} :
    Returned(route)
      => (returned.response.status = 429
            <=> (returned.threw = "model" /\ "quota" \in returned.outcome.thrown))

\* the fields of the two result types
ParsedTodoResultFields == {"title", "due_at", "priority", "category", "description"}
TodoSummaryFields == {"summary", "urgentTasks", "insights", "recommendations"}

\* C7: every request ends with one response, which is either HTTP 200 with a
\* complete result object or an error payload with status 400, 429 or 500;
\* whatever is thrown at any stage ends in such an error payload.
C7_OneCompleteResponse ==
  /\ \A r \in Reqs : req[r].pc = "model" => req[r].e.response.status = 0
  /\ \A route \in {"parse", "summarize"} :
       Returned(route)
         => /\ returned.response.status \in {200, 400, 429, 500}
            /\ returned.response.status = 200
                 => /\ returned.threw = "none"
                    /\ DOMAIN returned.response.body
                         = IF route = "parse" THEN ParsedTodoResultFields
                           ELSE TodoSummaryFields
            /\ returned.response.status # 200
                 => DOMAIN returned.response.body = {"error"}
            /\ returned.threw # "none"
                 => /\ returned.response.status \in {429, 500}
                    /\ DOMAIN returned.response.body = {"error"}

C7_Witness ==
  /\ Returned("parse")
  /\ returned.threw = "body"
  /\ returned.body.shape = "null"
  /\ returned.response.status = 500
  /\ DOMAIN returned.response.body = {"error"}

\* the inputs the handlers are to refuse: a body of the wrong shape, or a
\* text or a todo list that breaks the input policy
MalformedParse(body) ==
  \/ body.shape # "object"
  \/ body.text.type # "string"
  \/ body.currentLocalDateTime.kind = "invalid"
  \/ Length(Trim(body.text.s)) < MIN_LENGTH
  \/ Length(body.text.s) > MAX_LENGTH
  \/ HasDangerous(body.text.s)
  \/ Trim(StripEmoji(body.text.s)) = <<>>

MalformedSummarize(body) ==
  \/ body.shape # "object"
  \/ ~body.todos.isArray
  \/ body.todos.items # "todo"
  \/ body.period \notin {"today", "week"}
  \/ body.currentLocalDateTime.kind = "invalid"
  \/ body.todos.length = 0
  \/ body.todos.length > MAX_TODOS

\* C8: malformed or policy-violating input is answered with HTTP 400.
C8_MalformedIs400 ==
  /\ (Returned("parse") /\ MalformedParse(returned.body))
       => returned.response.status = 400
  /\ (Returned("summarize") /\ MalformedSummarize(returned.body))
       => returned.response.status = 400

\* C9 as claimed: for every summarize request, whatever its other fields,
\* empty todos are answered 400 with the no-todos message and more than
\* MAX_TODOS todos with the cap message; a request is accepted only with a
\* length in 1..MAX_TODOS and a period of today or week.
ReturnedTodos == Returned("summarize") /\ returned.body.shape = "object"
                   /\ returned.body.todos.isArray

C9_Original ==
  ReturnedTodos
    => /\ returned.body.todos.length = 0
            => /\ returned.response.status = 400
               /\ returned.response.body.error = "no todos to analyze"
       /\ returned.body.todos.length > MAX_TODOS
            => /\ returned.response.status = 400
               /\ returned.response.body.error = "more than MAX_TODOS todos"
       /\ returned.calls > 0
            => /\ returned.body.todos.length \in 1..MAX_TODOS
               /\ returned.body.period \in {"today", "week"}

\* C9 amended: empty todos and more than MAX_TODOS todos are answered 400
\* for every period; the message is the no-todos or the cap message when the
\* period is today or week, and the invalid-period message otherwise, since
\* the period is checked first; a request is accepted only with a length in
\* 1..MAX_TODOS and a period of today or week.
C9_CountChecksAfterPeriod ==
  \A e \in {x \in Exchanges : x.route = "summarize" /\ x.body.shape = "object"
                                /\ x.body.todos.isArray} :
    /\ (e.body.todos.length = 0 \/ e.body.todos.length > MAX_TODOS)
         => /\ e.response.status = 400
            /\ e.response.body.error
                 = IF e.body.period \notin {"today", "week"} THEN "period is not valid"
                   ELSE IF e.body.todos.length = 0 THEN "no todos to analyze"
                   ELSE "more than MAX_TODOS todos"
    /\ e.calls > 0
         => /\ e.body.todos.length \in 1..MAX_TODOS
            /\ e.body.period \in {"today", "week"}

C9_Witness ==
  /\ ReturnedTodos
  /\ returned.body.todos.length = MAX_TODOS + 1
  /\ returned.body.period = "month"
  /\ returned.response = errorResponse("period is not valid", 400)

\* C10: normalization is idempotent on every text validateInput accepts.
C10_NormalizeIdempotent ==
  (ReturnedText /\ validateInput(returned.body.text, 0).ok)
    => preprocessText(preprocessText(returned.body.text.s))
         = preprocessText(returned.body.text.s)

\* the text holds a character that is neither white space nor an emoji
HasContent(s) == \E i \in 1..Len(s) : ~IsSpace(s[i]) /\ ~EMOJI_REGEX(s[i])

\* C11: validateInput rejects every text whose trimmed length is 0 or 1 and
\* every text whose raw length is above MAX_LENGTH, whatever its trimmed
\* length; a text with no dangerous character and not of emoji only is
\* accepted when its trimmed length is at least MIN_LENGTH and its raw
\* length at most MAX_LENGTH.
C11_LengthBoundaries ==
  Returns("validateInput") =>
    LET s == probe.args.text.s
        trimmed == Trim(s)
    IN /\ Length(trimmed) < MIN_LENGTH => ~probe.out.ok
       /\ Length(s) > MAX_LENGTH => ~probe.out.ok
       /\ (/\ Length(trimmed) >= MIN_LENGTH
           /\ Length(s) <= MAX_LENGTH
           /\ ~HasDangerous(s)
           /\ HasContent(s)) => probe.out.ok

\* a text of raw length MAX_LENGTH + 1 and trimmed length 2 was rejected
\* for its length
C11_Witness ==
  /\ Returns("validateInput")
  /\ Length(probe.args.text.s) = MAX_LENGTH + 1
  /\ Length(Trim(probe.args.text.s)) = MIN_LENGTH
  /\ HasContent(probe.args.text.s)
  /\ ~HasDangerous(probe.args.text.s)
  /\ ~probe.out.ok
  /\ probe.out.error = "at most MAX_LENGTH characters"

Instant(v) == IF v.kind = "utc" THEN Minutes(v.dt) ELSE Minutes(v.dt) - zone

\* a todo that is not completed, has a due time, and whose due instant is
\* strictly before the reference instant
IsOverdue(t, nowStr) ==
  /\ ~t.completed
  /\ t.due_at.kind \in {"local", "utc"}
  /\ Instant(t.due_at) < Instant(nowStr)

\* C13: the overall overdue count of computeStats, the overdue count of
\* each category and the counts of both overdue breakdowns are the numbers
\* of todos (of that category, of that priority) that are not completed,
\* have a due time and are due strictly before the reference instant.
C13_OverduePredicate ==
  Returns("statistics") =>
    LET todos == probe.args.todos
        s == probe.out.server
        I == 1..Len(todos)
        Over == {i \in I : IsOverdue(todos[i], probe.args.nowStr)}
        OfCategory(i) == {j \in Over : CategoryKey(todos[j]) = CategoryKey(todos[i])}
        OfPriority(i) == {j \in Over : todos[j].priority = todos[i].priority}
    IN /\ s.overdue = Cardinality(Over)
       /\ \A i \in I :
            /\ CategoryKey(todos[i]) \in DOMAIN s.categoryCompletion
            /\ s.categoryCompletion[CategoryKey(todos[i])].overdue
                 = Cardinality(OfCategory(i))
       /\ DOMAIN s.overdueByCategory = {CategoryKey(todos[i]) : i \in Over}
       /\ DOMAIN s.overdueByPriority = {todos[i].priority : i \in Over}
       /\ \A i \in Over :
            /\ s.overdueByCategory[CategoryKey(todos[i])]
                 = Counted(Cardinality(OfCategory(i)))
            /\ s.overdueByPriority[todos[i].priority] = Cardinality(OfPriority(i))
\* the day number of a Date
DayOf(date) == DayNumber(date.dt.y, date.dt.mo, date.dt.d)

\* the calendar fields of a Date name a day of a month
IsCalendarDate(date) ==
  /\ date.valid
  /\ date.dt.mo \in 1..12
  /\ date.dt.d \in 1..DaysInMonth(date.dt.y, date.dt.mo)

\* C14: the week of computeStats starts on the Monday at or before the
\* reference instant at 00:00:00.000 local time and ends on the Sunday six
\* days later at 23:59:59.999; it contains the reference instant, and the
\* week of the client's computeWeekStats is the same.
C14_WeekWindow ==
  Returns("statistics") =>
    LET now == NewDate(probe.args.nowStr)
        monday == probe.out.server.weekMonday
        sunday == probe.out.server.weekSunday
    IN /\ IsCalendarDate(monday) /\ IsCalendarDate(sunday)
       /\ DayOfWeek(DayOf(monday)) = 1
       /\ DayOf(monday) <= DayOf(now) /\ DayOf(now) <= DayOf(monday) + 6
       /\ <<monday.dt.h, monday.dt.mi, monday.s, monday.ms>> = <<0, 0, 0, 0>>
       /\ DayOf(sunday) = DayOf(monday) + 6
       /\ DayOfWeek(DayOf(sunday)) = 0
       /\ <<sunday.dt.h, sunday.dt.mi, sunday.s, sunday.ms>> = <<23, 59, 59, 999>>
       /\ NotLater(monday, now) /\ NotLater(now, sunday)
       /\ probe.out.week.weekMonday = monday
       /\ probe.out.week.weekSunday = sunday

\* the reference instant is a Sunday of January whose week began in the
\* December of the year before
C14_Witness ==
  /\ Returns("statistics")
  /\ GetDay(NewDate(probe.args.nowStr)) = 0
  /\ probe.args.nowStr.dt.y = 2027
  /\ probe.out.server.weekMonday.dt.y = 2026
  /\ probe.out.server.weekMonday.dt.mo = 12
  /\ probe.out.server.weekSunday.dt = probe.args.nowStr.dt
  /\ probe.out.server.weekSunday.s = 59
\* the local calendar date of the instant of a date string that parses
LocalDateOf(v) == CivilFromDays((Instant(v) + zone) \div 1440)

\* C15: the today list of computeStats holds exactly the todos whose due
\* instant falls on the local calendar date of the reference instant, for
\* local and for UTC due strings, and is the list computeTodayStats of the
\* client selects for the same todos and the same instant.
C15_TodayList ==
  Returns("statistics") =>
    LET todos == probe.args.todos
        today == {i \in 1..Len(todos) :
                    /\ todos[i].due_at.kind \in {"local", "utc"}
                    /\ LocalDateOf(todos[i].due_at) = LocalDateOf(probe.args.nowStr)}
    IN /\ probe.out.server.todayTasks = Pick(todos, today)
       /\ probe.out.server.todayTasks = probe.out.today.todayTodos
\* C16: the title of every result of postprocess is between TITLE_MIN and
\* TITLE_MAX code units long, whatever the raw title.
C16_TitleLength ==
  Returns("postprocess") =>
    /\ Length(probe.out.title) >= TITLE_MIN
    /\ Length(probe.out.title) <= TITLE_MAX

\* the ends of the words of t that lie within the first TITLE_MAX code units
WordEnds(t) ==
  {i \in 1..(Len(t) - 1) :
     /\ ~IsSpace(t[i]) /\ IsSpace(t[i + 1])
     /\ Length(SubSeq(t, 1, i)) <= TITLE_MAX}

\* C17: a raw title of trimmed length below TITLE_MIN gives the placeholder;
\* one of trimmed length above TITLE_MAX gives at most TITLE_MAX + 1 code
\* units ending in the ellipsis, and before the ellipsis stands the trimmed
\* title up to the end of the last word that ends within its first
\* TITLE_MAX code units; one of trimmed length TITLE_MIN..TITLE_MAX is
\* returned as trimmed.
C17_TitleRepair ==
  Returns("postprocess") =>
    LET t == Trim(probe.args.raw.title)
        title == probe.out.title
    IN /\ Length(t) < TITLE_MIN => title = PLACEHOLDER_TITLE
       /\ Length(t) > TITLE_MAX =>
            /\ Length(title) <= TITLE_MAX + 1
            /\ title[Len(title)] = "ell"
            /\ WordEnds(t) # {}
            /\ title = Append(SubSeq(t, 1, Max(WordEnds(t))), "ell")
       /\ (Length(t) >= TITLE_MIN /\ Length(t) <= TITLE_MAX) => title = t
\* the local calendar fields of the instant of a date string that parses
LocalFields(v) == IF v.kind = "utc" THEN FromMinutes(Minutes(v.dt) + zone) ELSE v.dt

\* C18: for a raw due date that parses, with a valid reference instant: if
\* it is more than one year after the reference instant the result has the
\* year of the reference and the month, day, hour and minute of the raw
\* date; otherwise the result has all the fields of the raw date.
C18_YearCorrection ==
  (/\ Returns("postprocess")
   /\ probe.args.raw.due_at.kind \in {"local", "utc"}
   /\ probe.args.nowStr.kind = "local") =>
    LET p == LocalFields(probe.args.raw.due_at)
        now == probe.args.nowStr.dt
        oneYearLater == SetFullYear(now, now.y + 1)
    IN /\ probe.out.due_at.kind = "local"
       /\ probe.out.due_at.dt = IF After(p, oneYearLater) THEN [p EXCEPT !.y = now.y] ELSE p

\* C19: a raw due_at written as YYYY-MM-DDTHH:mm that names a local time not
\* more than one year after the reference instant is returned as the same
\* string; a raw due_at that is null or does not parse gives null.
C19_RoundTrip ==
  Returns("postprocess") =>
    LET raw == probe.args.raw.due_at
        now == probe.args.nowStr
    IN /\ (/\ raw.kind = "local" /\ raw.yw = 4 /\ IsCalendar(raw.dt)
           /\ now.kind = "local"
           /\ ~After(raw.dt, SetFullYear(now.dt, now.dt.y + 1)))
            => probe.out.due_at = raw
       /\ raw.kind \in {"null", "invalid"} => probe.out.due_at = Null
\* C20: every HTTP 200 response of the summarize route carries at most 3
\* urgentTasks, 2 to 4 insights and 2 to 3 recommendations.
C20_SummaryCounts ==
  (Returned("summarize") /\ returned.response.status = 200) =>
    /\ returned.response.body.urgentTasks <= 3
    /\ returned.response.body.insights \in 2..4
    /\ returned.response.body.recommendations \in 2..3

\* C21: every row of public.todos has completed_at non-null if and only if
\* completed is true, after any sequence of statements the table accepts.
C21_CompletedAtIffCompleted ==
  \A id \in RowIds :
    table[id].exists =>
      ((table[id].completed_at # SqlNull) <=> (table[id].completed = "true"))

\* the auth-only paths as the route guard is described: /login, /signup,
\* /reset-password and what lies below one of them
BelowAuthPath(pathname) ==
  \E name \in {"login", "signup", "reset-password"} :
    \/ pathname = <<"/", name>>
    \/ /\ Len(pathname) >= 3
       /\ pathname[1] = "/" /\ pathname[2] = name /\ pathname[3] = "/"

C25_ReturnToNext ==
  (served.cause = "login" /\ served.from.next # NoNext)
    => shown.pathname = served.from.next

\* the completed and completed_at a list shows for a todo
Completion(list, id) ==
  IF list[id].exists THEN <<list[id].completed, list[id].completed_at # SqlNull>>
  ELSE <<"no row", FALSE>>

\* C23: when the update of handleToggleComplete fails, the local list shows
\* for that todo the completed and completed_at values of the server once
\* the handler has returned, also when the refetch fails.
C23_ToggleRollback ==
  (/\ finished.issued = 1 /\ pending = {}
   /\ finished.last.handler = "toggle" /\ finished.last.failed)
    => Completion(pageTodos, finished.last.id)
         = Completion(table, finished.last.id)

\* C28: once no request is in flight, and no request has failed, the
\* completed flag the local list shows for a todo is the one the server
\* stores, whatever order the server answered in.
C28_TogglesConverge ==
  (pending = {} /\ ~finished.failed)
    => \A id \in RowIds :
         (pageTodos[id].exists /\ table[id].exists)
           => pageTodos[id].completed = table[id].completed

\* C24: from handleClose until the user acts on the dialog again, input is
\* empty, parsedResult is null and error is null, also when the response of
\* a parse request arrives after the dialog was closed.
C24_CloseResets ==
  dialog.untouched =>
    /\ dialog.input = ""
    /\ dialog.parsedResult = "null"
    /\ dialog.error = "null"

\* C30: when the insert of onAddTodo has failed, handleAdd leaves the dialog
\* open on the result step with parsedResult as it was.
C30_ResultKeptOnFailure ==
  dialog.added = "failed" =>
    dialog.isOpen /\ dialog.parsedResult # "null"

\* text contains q, letters compared without regard to case
ContainsIgnoringCase(text, q) ==
  LET fold(ch) == IF ch = "A" THEN "a" ELSE ch
  IN \E i \in 0..(Len(text) - Len(q)) :
       \A k \in 1..Len(q) : fold(text[i + k]) = fold(q[k])

\* the filters of the toolbar other than the search
PassesOtherFilters(todo, filters) ==
  /\ filters.priority # {} => todo.priority \in filters.priority
  /\ filters.status # {} => getTodoStatus(todo) \in filters.status
  /\ filters.category # "" => todo.category = filters.category

\* C26: with a non-empty search query the filtered list holds exactly the
\* todos that pass the other filters and whose title or description
\* contains the query, case-insensitively; with an empty query the search
\* removes no todo.
C26_SearchFilter ==
  Returns("getFilteredTodos") =>
    LET a == probe.args
        given == {a.todos[i] : i \in 1..Len(a.todos)}
        found(todo) ==
          \/ a.searchQuery = <<>>
          \/ ContainsIgnoringCase(todo.title, a.searchQuery)
          \/ /\ todo.description.type = "string"
             /\ ContainsIgnoringCase(todo.description.s, a.searchQuery)
    IN {probe.out[i] : i \in 1..Len(probe.out)}
         = {todo \in given : PassesOtherFilters(todo, a.filters) /\ found(todo)}

\* C27: the text a parse request hands to the model holds no dangerous
\* character and no emoji, whatever requests the process handled before.
C27_PromptTextIsClean ==
  \A e \in Exchanges :
    (e.route = "parse" /\ e.calls > 0)
      => \A i \in 1..Len(e.cleanedText) :
           /\ ~DANGEROUS_CHARS_REGEX(e.cleanedText[i])
           /\ ~EMOJI_REGEX(e.cleanedText[i])

\* the sum of n(k) over the keys K
RECURSIVE SumOver(_, _)
SumOver(n, K) ==
  IF K = {} THEN 0
  ELSE LET k == CHOOSE x \in K : TRUE
       IN n[k] + SumOver(n, K \ {k})

\* C29: the overall overdue count of computeStats is the sum of
\* overdueByCategory, the sum of overdueByPriority and the sum of the
\* overdue fields of categoryCompletion, and the totals of
\* categoryCompletion add up to total.
C29_OverdueBreakdownsAgree ==
  Returns("statistics") =>
    LET s == probe.out.server
        byCategory == s.overdueByCategory
        byPriority == s.overdueByPriority
        perCategory == s.categoryCompletion
    IN /\ \A k \in DOMAIN byCategory : byCategory[k].number
       /\ SumOver([k \in DOMAIN byCategory |-> byCategory[k].n],
                  DOMAIN byCategory) = s.overdue
       /\ SumOver(byPriority, DOMAIN byPriority) = s.overdue
       /\ SumOver([k \in DOMAIN perCategory |-> perCategory[k].overdue],
                  DOMAIN perCategory) = s.overdue
       /\ SumOver([k \in DOMAIN perCategory |-> perCategory[k].total],
                  DOMAIN perCategory) = s.total

====
